---- MODULE Spec2Model ----
(***************************************************************************)
(* Vortex: a constant-product AMM (programs/vortex).  The model covers the *)
(* arithmetic of math.rs, the Pool account of state/pool.rs and the four   *)
(* instruction handlers dispatched by lib.rs.                              *)
(*                                                                         *)
(* Integer widths.  TLC's integers are 32-bit, so the program's u64 is     *)
(* modelled by a narrower unsigned word with largest value U64_MAX, and    *)
(* its u128 by the double word [hi, lo] of value hi * U64_MOD + lo.  All   *)
(* arithmetic is written against U64_MAX, so that overflow, truncation     *)
(* (`as u64`) and saturation happen in the model exactly where they happen *)
(* in the program, at the scaled width.                                    *)
(***************************************************************************)
EXTENDS Integers, Sequences, FiniteSets, TLC

\* ------------------------------------------------------------------------
\* Bounds of the model
\* ------------------------------------------------------------------------

\* u64::MAX at the modelled word width (2^29 - 1)
U64_MAX == 536870911

\* instructions executed on one pool in one behaviour
MaxOps == 3

U64_MOD == U64_MAX + 1

\* ------------------------------------------------------------------------
\* Program constants (constants.rs)
\* ------------------------------------------------------------------------

BPS_DENOMINATOR == 10000

MINIMUM_LIQUIDITY == 1000

MAX_FEE_BPS == 1000

MIN_FEE_BPS == 1

MIN_SWAP_AMOUNT == 100

MIN_INITIAL_LIQUIDITY == 1000

\* ------------------------------------------------------------------------
\* Wide (u128) arithmetic as the program uses it
\* ------------------------------------------------------------------------

\* the element of a one-element set
The(S) == CHOOSE x \in S : TRUE

\* one bit of the multiplier: h := 2 * h + bit * a
mul_step(h, bit, a) ==
    LET s == 2 * h.lo + bit * a
    IN  [hi |-> 2 * h.hi + (s \div U64_MOD), lo |-> s % U64_MOD]

\* (a as u128).checked_mul(b as u128): the product of two words always fits
\* the double word, so the checked_mul never reports an overflow.  A product
\* below 2^31 is taken directly, a larger one is built over the bits of b.
RECURSIVE u128_mul(_, _)
u128_mul(a, b) ==
    IF a = 0 \/ b <= 2147483647 \div a
    THEN [hi |-> (a * b) \div U64_MOD, lo |-> (a * b) % U64_MOD]
    ELSE The({mul_step(h, b % 2, a) : h \in {u128_mul(a, b \div 2)}})

\* comparison of two u128 values
u128_le(x, y) == x.hi < y.hi \/ (x.hi = y.hi /\ x.lo <= y.lo)

u128_lt(x, y) == x.hi < y.hi \/ (x.hi = y.hi /\ x.lo < y.lo)

\* one bit of the multiplier in the long division by d: from q and r of
\* floor(p / d) to those of floor((2 * p + bit * a) / d)
mul_div_step(h, bit, a, d) ==
    LET r2 == 2 * h.r
        q2 == 2 * h.q + (r2 \div d)
        r3 == (r2 % d) + bit * (a % d)
        q3 == q2 + bit * (a \div d) + (r3 \div d)
    IN  [q |-> q3 % U64_MOD, r |-> r3 % d, ovf |-> h.ovf \/ q3 > U64_MAX]

\* floor(a * b / d) for d > 0: q is the quotient reduced modulo U64_MOD, r
\* the remainder, ovf whether the true quotient exceeds U64_MAX.  A product
\* below 2^31 is divided directly, a larger one by long division over the
\* bits of b.
RECURSIVE u128_mul_div(_, _, _)
u128_mul_div(a, b, d) ==
    IF a = 0 \/ b <= 2147483647 \div a
    THEN [q |-> ((a * b) \div d) % U64_MOD, r |-> (a * b) % d,
          ovf |-> (a * b) \div d > U64_MAX]
    ELSE The({mul_div_step(h, b % 2, a, d) : h \in {u128_mul_div(a, b \div 2, d)}})

\* (a as u128).checked_mul(b as u128)?.checked_div(d as u128)? as u64
\* for d > 0: the cast keeps the low word of the quotient.
mul_div_as_u64(a, b, d) == u128_mul_div(a, b, d).q

\* ------------------------------------------------------------------------
\* math.rs
\* ------------------------------------------------------------------------

RECURSIVE sqrt_loop(_, _, _)
sqrt_loop(y, x, z) ==
    IF z < x THEN sqrt_loop(y, z, ((y \div z) + z) \div 2) ELSE x

\* sqrt: y + 1 overflows the word for y = u64::MAX; with overflow checks the
\* addition panics, without them it wraps to 0 and the first y / z divides
\* by zero, so every build aborts there.
sqrt(y) ==
    IF y = 0 THEN [err |-> "Ok", val |-> 0]
    ELSE IF y = U64_MAX THEN [err |-> "Panic", val |-> 0]
    ELSE [err |-> "Ok", val |-> sqrt_loop(y, y, (y + 1) \div 2)]

SwapErr(e) == [err |-> e, amount_out |-> 0, fee_amount |-> 0]

\* calculate_swap_output with reserve_in left out of the denominator and
\* without the final comparison with reserve_out
calculate_swap_output_drain(amount_in, reserve_in, reserve_out, fee_numerator, fee_denominator) ==
    IF amount_in = 0 THEN SwapErr("AmountTooSmall")
    ELSE IF reserve_in = 0 THEN SwapErr("PoolNotInitialized")
    ELSE IF reserve_out = 0 THEN SwapErr("PoolNotInitialized")
    ELSE IF fee_denominator = 0 THEN SwapErr("DivisionByZero")
    ELSE LET fee_amount == mul_div_as_u64(amount_in, fee_numerator, fee_denominator)
         IN  IF fee_amount >= amount_in THEN SwapErr("MathOverflow")
             ELSE LET amount_in_with_fee == amount_in - fee_amount
                      denominator == amount_in_with_fee
                      amount_out == mul_div_as_u64(amount_in_with_fee, reserve_out, denominator)
                  IN  IF amount_out = 0 THEN SwapErr("InsufficientOutputAmount")
                      ELSE [err |-> "Ok", amount_out |-> amount_out, fee_amount |-> fee_amount]

\* calculate_swap_output charging a fee of at least 1
calculate_swap_output_fee_at_least_one(amount_in, reserve_in, reserve_out, fee_numerator, fee_denominator) ==
    IF amount_in = 0 THEN SwapErr("AmountTooSmall")
    ELSE IF reserve_in = 0 THEN SwapErr("PoolNotInitialized")
    ELSE IF reserve_out = 0 THEN SwapErr("PoolNotInitialized")
    ELSE IF fee_denominator = 0 THEN SwapErr("DivisionByZero")
    ELSE LET floored == mul_div_as_u64(amount_in, fee_numerator, fee_denominator)
             fee_amount == IF floored = 0 THEN 1 ELSE floored
         IN  IF fee_amount > amount_in THEN SwapErr("MathOverflow")
             ELSE LET amount_in_with_fee == amount_in - fee_amount
                      denominator == reserve_in + amount_in_with_fee
                      amount_out == mul_div_as_u64(amount_in_with_fee, reserve_out, denominator)
                  IN  IF amount_out = 0 THEN SwapErr("InsufficientOutputAmount")
                      ELSE IF amount_out >= reserve_out THEN SwapErr("InsufficientLiquidity")
                      ELSE [err |-> "Ok", amount_out |-> amount_out, fee_amount |-> fee_amount]

calculate_swap_output(amount_in, reserve_in, reserve_out, fee_numerator, fee_denominator) ==
    IF amount_in = 0 THEN SwapErr("AmountTooSmall")
    ELSE IF reserve_in = 0 THEN SwapErr("PoolNotInitialized")
    ELSE IF reserve_out = 0 THEN SwapErr("PoolNotInitialized")
    ELSE IF fee_denominator = 0 THEN SwapErr("DivisionByZero")
    ELSE LET fee_amount == mul_div_as_u64(amount_in, fee_numerator, fee_denominator)
         IN  IF fee_amount > amount_in THEN SwapErr("MathOverflow")
             ELSE LET amount_in_with_fee == amount_in - fee_amount
                      denominator == reserve_in + amount_in_with_fee
                      amount_out == mul_div_as_u64(amount_in_with_fee, reserve_out, denominator)
                  IN  IF amount_out = 0 THEN SwapErr("InsufficientOutputAmount")
                      ELSE IF amount_out >= reserve_out THEN SwapErr("InsufficientLiquidity")
                      ELSE [err |-> "Ok", amount_out |-> amount_out, fee_amount |-> fee_amount]

LiqErr(e) == [err |-> e, liquidity |-> 0]

\* calculate_initial_liquidity without the comparison of the product with
\* u64::MAX: the root of the low word
calculate_initial_liquidity_low_word(amount_a, amount_b) ==
    LET product == u128_mul(amount_a, amount_b)
        root == sqrt(product.lo)
    IN  IF root.err # "Ok" THEN LiqErr(root.err)
        ELSE IF root.val < MINIMUM_LIQUIDITY THEN LiqErr("InitialLiquidityTooSmall")
        ELSE [err |-> "Ok", liquidity |-> root.val]

\* calculate_initial_liquidity returning the root rounded up to the next
\* integer
calculate_initial_liquidity_rounded_up(amount_a, amount_b) ==
    LET product == u128_mul(amount_a, amount_b)
    IN  IF product.hi > 0 THEN LiqErr("MathOverflow")
        ELSE LET root == sqrt(product.lo)
             IN  IF root.err # "Ok" THEN LiqErr(root.err)
                 ELSE IF root.val < MINIMUM_LIQUIDITY THEN LiqErr("InitialLiquidityTooSmall")
                 ELSE [err |-> "Ok", liquidity |-> root.val + 1]

calculate_initial_liquidity(amount_a, amount_b) ==
    LET product == u128_mul(amount_a, amount_b)
    IN  IF product.hi > 0 THEN LiqErr("MathOverflow")
        ELSE LET root == sqrt(product.lo)
             IN  IF root.err # "Ok" THEN LiqErr(root.err)
                 ELSE IF root.val < MINIMUM_LIQUIDITY THEN LiqErr("InitialLiquidityTooSmall")
                 ELSE [err |-> "Ok", liquidity |-> root.val]

min(x, y) == IF x <= y THEN x ELSE y

\* calculate_liquidity_to_mint taking the larger candidate
calculate_liquidity_to_mint_max(amount_a, amount_b, reserve_a, reserve_b, total_supply) ==
    IF ~(reserve_a > 0 /\ reserve_b > 0) THEN LiqErr("PoolNotInitialized")
    ELSE IF total_supply = 0 THEN LiqErr("PoolNotInitialized")
    ELSE LET liquidity_a == mul_div_as_u64(amount_a, total_supply, reserve_a)
             liquidity_b == mul_div_as_u64(amount_b, total_supply, reserve_b)
             liquidity   == IF liquidity_a >= liquidity_b THEN liquidity_a ELSE liquidity_b
         IN  IF liquidity = 0 THEN LiqErr("InsufficientLiquidityMinted")
             ELSE [err |-> "Ok", liquidity |-> liquidity]

\* calculate_liquidity_to_mint looking at token A only
calculate_liquidity_to_mint_a_only(amount_a, amount_b, reserve_a, reserve_b, total_supply) ==
    IF ~(reserve_a > 0 /\ reserve_b > 0) THEN LiqErr("PoolNotInitialized")
    ELSE IF total_supply = 0 THEN LiqErr("PoolNotInitialized")
    ELSE LET liquidity == mul_div_as_u64(amount_a, total_supply, reserve_a)
         IN  IF liquidity = 0 THEN LiqErr("InsufficientLiquidityMinted")
             ELSE [err |-> "Ok", liquidity |-> liquidity]

calculate_liquidity_to_mint(amount_a, amount_b, reserve_a, reserve_b, total_supply) ==
    IF ~(reserve_a > 0 /\ reserve_b > 0) THEN LiqErr("PoolNotInitialized")
    ELSE IF total_supply = 0 THEN LiqErr("PoolNotInitialized")
    ELSE LET liquidity_a == mul_div_as_u64(amount_a, total_supply, reserve_a)
             liquidity_b == mul_div_as_u64(amount_b, total_supply, reserve_b)
             liquidity   == min(liquidity_a, liquidity_b)
         IN  IF liquidity = 0 THEN LiqErr("InsufficientLiquidityMinted")
             ELSE [err |-> "Ok", liquidity |-> liquidity]

AmtErr(e) == [err |-> e, amount_a |-> 0, amount_b |-> 0]

\* calculate_amounts_for_liquidity without the comparison with total_supply
calculate_amounts_for_liquidity_unbounded(liquidity, reserve_a, reserve_b, total_supply) ==
    IF liquidity = 0 THEN AmtErr("InsufficientLiquidityBurned")
    ELSE IF total_supply = 0 THEN AmtErr("PoolNotInitialized")
    ELSE LET amount_a == mul_div_as_u64(reserve_a, liquidity, total_supply)
             amount_b == mul_div_as_u64(reserve_b, liquidity, total_supply)
         IN  IF ~(amount_a > 0 /\ amount_b > 0) THEN AmtErr("InsufficientOutputAmount")
             ELSE [err |-> "Ok", amount_a |-> amount_a, amount_b |-> amount_b]

calculate_amounts_for_liquidity(liquidity, reserve_a, reserve_b, total_supply) ==
    IF liquidity = 0 THEN AmtErr("InsufficientLiquidityBurned")
    ELSE IF total_supply = 0 THEN AmtErr("PoolNotInitialized")
    ELSE IF liquidity > total_supply THEN AmtErr("InsufficientLiquidityBurned")
    ELSE LET amount_a == mul_div_as_u64(reserve_a, liquidity, total_supply)
             amount_b == mul_div_as_u64(reserve_b, liquidity, total_supply)
         IN  IF ~(amount_a > 0 /\ amount_b > 0) THEN AmtErr("InsufficientOutputAmount")
             ELSE [err |-> "Ok", amount_a |-> amount_a, amount_b |-> amount_b]

\* verify_invariant on 64-bit products: the low words compared
verify_invariant_u64(old_reserve_a, old_reserve_b, new_reserve_a, new_reserve_b) ==
    LET k_old == u128_mul(old_reserve_a, old_reserve_b)
        k_new == u128_mul(new_reserve_a, new_reserve_b)
    IN  IF k_old.lo <= k_new.lo THEN "Ok" ELSE "InvariantViolation"

verify_invariant(old_reserve_a, old_reserve_b, new_reserve_a, new_reserve_b) ==
    LET k_old == u128_mul(old_reserve_a, old_reserve_b)
        k_new == u128_mul(new_reserve_a, new_reserve_b)
    IN  IF u128_le(k_old, k_new) THEN "Ok" ELSE "InvariantViolation"

\* ------------------------------------------------------------------------
\* state/pool.rs
\* ------------------------------------------------------------------------

is_initialized(p) == p.reserve_a > 0 /\ p.reserve_b > 0

\* update_reserves storing reserve_a only
update_reserves_a_only(p, new_reserve_a, new_reserve_b) ==
    [p EXCEPT !.reserve_a = new_reserve_a]

\* update_reserves storing the two reserves in each other's field
update_reserves_swapped(p, new_reserve_a, new_reserve_b) ==
    [p EXCEPT !.reserve_a = new_reserve_b, !.reserve_b = new_reserve_a]

update_reserves(p, new_reserve_a, new_reserve_b) ==
    [p EXCEPT !.reserve_a = new_reserve_a, !.reserve_b = new_reserve_b]

\* an addition that wraps
wrapping_add(x, y) == (x + y) % U64_MOD

saturating_add(x, y) == IF x + y > U64_MAX THEN U64_MAX ELSE x + y

\* record_swap adding the fee of the swap to both fee counters
record_swap_fee_both_sides(p, volume_a, volume_b, fee_a, fee_b, timestamp, slot) ==
    [p EXCEPT !.total_swaps = saturating_add(p.total_swaps, 1),
              !.cumulative_volume_a = saturating_add(p.cumulative_volume_a, volume_a),
              !.cumulative_volume_b = saturating_add(p.cumulative_volume_b, volume_b),
              !.cumulative_fees_a = saturating_add(p.cumulative_fees_a, fee_a + fee_b),
              !.cumulative_fees_b = saturating_add(p.cumulative_fees_b, fee_a + fee_b),
              !.last_swap_timestamp = timestamp,
              !.last_update_slot = slot]

record_swap(p, volume_a, volume_b, fee_a, fee_b, timestamp, slot) ==
    [p EXCEPT !.total_swaps = saturating_add(p.total_swaps, 1),
              !.cumulative_volume_a = saturating_add(p.cumulative_volume_a, volume_a),
              !.cumulative_volume_b = saturating_add(p.cumulative_volume_b, volume_b),
              !.cumulative_fees_a = saturating_add(p.cumulative_fees_a, fee_a),
              !.cumulative_fees_b = saturating_add(p.cumulative_fees_b, fee_b),
              !.last_swap_timestamp = timestamp,
              !.last_update_slot = slot]

\* ------------------------------------------------------------------------
\* constants.rs
\* ------------------------------------------------------------------------

\* validate_fee.  numerator * BPS_DENOMINATOR is a u64 multiplication: when it
\* overflows, a build with overflow checks panics and one without wraps, so
\* the build (overflow_checks) is an input and the result is one of "true",
\* "false" and "panic".
validate_fee(numerator, denominator, overflow_checks) ==
    IF denominator = 0 THEN "false"
    ELSE LET product == u128_mul(numerator, BPS_DENOMINATOR)
         IN  IF product.hi > 0 /\ overflow_checks THEN "panic"
             ELSE LET fee_bps == product.lo \div denominator
                  IN  IF fee_bps >= MIN_FEE_BPS /\ fee_bps <= MAX_FEE_BPS
                      THEN "true" ELSE "false"

\* ------------------------------------------------------------------------
\* State
\* ------------------------------------------------------------------------

VARIABLES
    created,     \* the Pool account exists (initialize_pool has run)
    pool,        \* the Pool account as stored
    lp_supply,   \* lp_mint.supply
    user_lp,     \* LP tokens in the provider's user_lp_token account
    locked_lp,   \* LP tokens minted to the vault on the first deposit
    vault_a,     \* net amount of token A moved into token_a_vault by the
                 \* token::transfer calls of the instructions
    vault_b,     \* the same for token B and token_b_vault
    clock,       \* Clock sysvar: slot and unix_timestamp
    ops,         \* instructions executed on the pool so far
    last,        \* the last instruction: arguments, result, Pool before and
                 \* the handler's Pool (ctx.accounts.pool) when it returned
    prev,        \* the instruction on the pool before it (add, remove or swap)
    call         \* the last direct call of a math.rs function

vars ==
    <<created, pool, lp_supply, user_lp, locked_lp, vault_a, vault_b, clock, ops, last,
      prev, call>>

ZeroPool ==
    [reserve_a |-> 0, reserve_b |-> 0, fee_numerator |-> 0, fee_denominator |-> 0,
     paused |-> FALSE, total_swaps |-> 0,
     cumulative_volume_a |-> 0, cumulative_volume_b |-> 0,
     cumulative_fees_a |-> 0, cumulative_fees_b |-> 0,
     created_at |-> 0, last_swap_timestamp |-> 0, last_update_slot |-> 0]

NoOp ==
    [op |-> "none", err |-> "Ok", amount_a |-> 0, amount_b |-> 0, liquidity |-> 0,
     amount_in |-> 0, amount_out |-> 0, fee_amount |-> 0, a_to_b |-> FALSE,
     min1 |-> 0, min2 |-> 0, pre |-> ZeroPool, pre_supply |-> 0, mem |-> ZeroPool]

NoCall == [fn |-> "none"]

Init ==
    /\ created = FALSE
    /\ pool = ZeroPool
    /\ lp_supply = 0
    /\ user_lp = 0
    /\ locked_lp = 0
    /\ vault_a = 0
    /\ vault_b = 0
    /\ clock = [slot |-> 1, unix_timestamp |-> 1]
    /\ ops = 0
    /\ last = NoOp
    /\ prev = NoOp
    /\ call = NoCall

\* ------------------------------------------------------------------------
\* instructions/*.rs: the handlers, as functions of the Pool they are given.
\* Each returns err, the handler's Pool when it returned (pool) and the
\* amounts it computed.  The token-program calls (transfer, mint_to, burn)
\* are taken to succeed unless stated.
\* ------------------------------------------------------------------------

initialize_pool(fee_numerator, fee_denominator, overflow_checks, c) ==
    LET valid == validate_fee(fee_numerator, fee_denominator, overflow_checks)
    IN  IF valid = "panic" THEN [err |-> "Panic", pool |-> ZeroPool]
        ELSE IF valid = "false" THEN [err |-> "InvalidFeeParameters", pool |-> ZeroPool]
        ELSE [err |-> "Ok",
              pool |-> [ZeroPool EXCEPT !.fee_numerator = fee_numerator,
                                        !.fee_denominator = fee_denominator,
                                        !.paused = FALSE,
                                        !.created_at = c.unix_timestamp,
                                        !.last_swap_timestamp = 0,
                                        !.last_update_slot = c.slot]]

AddRet(e, p, l, k) == [err |-> e, pool |-> p, liquidity |-> l, locked |-> k]

\* a first deposit that locks nothing
first_deposit_lock_none(first) == 0

\* LP tokens minted to the vault: MINIMUM_LIQUIDITY on the first deposit
first_deposit_lock(first) == IF first THEN MINIMUM_LIQUIDITY ELSE 0

\* the update with the second sum stored in reserve_a again
add_liquidity_update_one_side(p, amount_a, amount_b, liquidity, locked, c) ==
    IF p.reserve_a + amount_a > U64_MAX THEN AddRet("MathOverflow", p, liquidity, locked)
    ELSE LET p1 == [p EXCEPT !.reserve_a = p.reserve_a + amount_a]
         IN  IF p1.reserve_b + amount_b > U64_MAX
             THEN AddRet("MathOverflow", p1, liquidity, locked)
             ELSE AddRet("Ok",
                         [p1 EXCEPT !.reserve_a = p1.reserve_b + amount_b,
                                    !.last_update_slot = c.slot],
                         liquidity, locked)

\* the reserve updates: reserve_a is assigned before the sum for reserve_b
\* is computed, then last_update_slot
add_liquidity_update(p, amount_a, amount_b, liquidity, locked, c) ==
    IF p.reserve_a + amount_a > U64_MAX THEN AddRet("MathOverflow", p, liquidity, locked)
    ELSE LET p1 == [p EXCEPT !.reserve_a = p.reserve_a + amount_a]
         IN  IF p1.reserve_b + amount_b > U64_MAX
             THEN AddRet("MathOverflow", p1, liquidity, locked)
             ELSE AddRet("Ok",
                         [p1 EXCEPT !.reserve_b = p1.reserve_b + amount_b,
                                    !.last_update_slot = c.slot],
                         liquidity, locked)

add_liquidity(p, total_supply, amount_a, amount_b, min_liquidity, c) ==
    IF p.paused THEN AddRet("PoolPaused", p, 0, 0)
    ELSE IF ~(amount_a > 0 /\ amount_b > 0) THEN AddRet("AmountTooSmall", p, 0, 0)
    ELSE LET first == ~is_initialized(p)
             computed ==
                 IF first
                 THEN IF ~(amount_a >= MIN_INITIAL_LIQUIDITY /\ amount_b >= MIN_INITIAL_LIQUIDITY)
                      THEN LiqErr("InitialLiquidityTooSmall")
                      ELSE LET full == calculate_initial_liquidity(amount_a, amount_b)
                           IN  IF full.err # "Ok" THEN full
                               ELSE IF full.liquidity < MINIMUM_LIQUIDITY THEN LiqErr("MathOverflow")
                               ELSE [err |-> "Ok", liquidity |-> full.liquidity - MINIMUM_LIQUIDITY]
                 ELSE calculate_liquidity_to_mint(amount_a, amount_b, p.reserve_a, p.reserve_b,
                                                  total_supply)
         IN  IF computed.err # "Ok" THEN AddRet(computed.err, p, 0, 0)
             ELSE IF computed.liquidity < min_liquidity THEN AddRet("SlippageExceeded", p, 0, 0)
             ELSE LET locked == first_deposit_lock(first)
                  \* lp_mint.supply is a u64 of the token program: mint_to fails
                  \* when the supply would overflow
                  IN  IF total_supply + locked + computed.liquidity > U64_MAX
                      THEN AddRet("TokenOverflow", p, 0, 0)
                      ELSE add_liquidity_update(p, amount_a, amount_b, computed.liquidity,
                                                locked, c)

RemRet(e, p, a, b) == [err |-> e, pool |-> p, amount_a |-> a, amount_b |-> b]

\* the handler without the comparison of amount_b with min_amount_b
remove_liquidity_min_a_only(p, total_supply, lp_balance, liquidity_amount, min_amount_a, min_amount_b, c) ==
    IF liquidity_amount = 0 THEN RemRet("AmountTooSmall", p, 0, 0)
    ELSE IF ~is_initialized(p) THEN RemRet("PoolNotInitialized", p, 0, 0)
    ELSE LET r == calculate_amounts_for_liquidity(liquidity_amount, p.reserve_a, p.reserve_b,
                                                  total_supply)
         IN  IF r.err # "Ok" THEN RemRet(r.err, p, 0, 0)
             ELSE IF r.amount_a < min_amount_a THEN RemRet("SlippageExceeded", p, 0, 0)
             ELSE IF liquidity_amount > lp_balance THEN RemRet("TokenInsufficientFunds", p, 0, 0)
             ELSE IF p.reserve_a < r.amount_a THEN RemRet("MathOverflow", p, 0, 0)
             ELSE LET p1 == [p EXCEPT !.reserve_a = p.reserve_a - r.amount_a]
                  IN  IF p1.reserve_b < r.amount_b THEN RemRet("MathOverflow", p1, 0, 0)
                      ELSE RemRet("Ok",
                                  [p1 EXCEPT !.reserve_b = p1.reserve_b - r.amount_b,
                                             !.last_update_slot = c.slot],
                                  r.amount_a, r.amount_b)

\* the handler behind the constraint !pool.paused of swap and add_liquidity
remove_liquidity_gated(p, total_supply, lp_balance, liquidity_amount, min_amount_a, min_amount_b, c) ==
    IF p.paused THEN RemRet("PoolPaused", p, 0, 0)
    ELSE IF liquidity_amount = 0 THEN RemRet("AmountTooSmall", p, 0, 0)
    ELSE IF ~is_initialized(p) THEN RemRet("PoolNotInitialized", p, 0, 0)
    ELSE LET r == calculate_amounts_for_liquidity(liquidity_amount, p.reserve_a, p.reserve_b,
                                                  total_supply)
         IN  IF r.err # "Ok" THEN RemRet(r.err, p, 0, 0)
             ELSE IF r.amount_a < min_amount_a THEN RemRet("SlippageExceeded", p, 0, 0)
             ELSE IF r.amount_b < min_amount_b THEN RemRet("SlippageExceeded", p, 0, 0)
             ELSE IF liquidity_amount > lp_balance THEN RemRet("TokenInsufficientFunds", p, 0, 0)
             ELSE IF p.reserve_a < r.amount_a THEN RemRet("MathOverflow", p, 0, 0)
             ELSE LET p1 == [p EXCEPT !.reserve_a = p.reserve_a - r.amount_a]
                  IN  IF p1.reserve_b < r.amount_b THEN RemRet("MathOverflow", p1, 0, 0)
                      ELSE RemRet("Ok",
                                  [p1 EXCEPT !.reserve_b = p1.reserve_b - r.amount_b,
                                             !.last_update_slot = c.slot],
                                  r.amount_a, r.amount_b)

remove_liquidity(p, total_supply, lp_balance, liquidity_amount, min_amount_a, min_amount_b, c) ==
    IF liquidity_amount = 0 THEN RemRet("AmountTooSmall", p, 0, 0)
    ELSE IF ~is_initialized(p) THEN RemRet("PoolNotInitialized", p, 0, 0)
    ELSE LET r == calculate_amounts_for_liquidity(liquidity_amount, p.reserve_a, p.reserve_b,
                                                  total_supply)
         IN  IF r.err # "Ok" THEN RemRet(r.err, p, 0, 0)
             ELSE IF r.amount_a < min_amount_a THEN RemRet("SlippageExceeded", p, 0, 0)
             ELSE IF r.amount_b < min_amount_b THEN RemRet("SlippageExceeded", p, 0, 0)
             \* token::burn fails when the account holds fewer LP tokens
             ELSE IF liquidity_amount > lp_balance THEN RemRet("TokenInsufficientFunds", p, 0, 0)
             ELSE IF p.reserve_a < r.amount_a THEN RemRet("MathOverflow", p, 0, 0)
             ELSE LET p1 == [p EXCEPT !.reserve_a = p.reserve_a - r.amount_a]
                  IN  IF p1.reserve_b < r.amount_b THEN RemRet("MathOverflow", p1, 0, 0)
                      ELSE RemRet("Ok",
                                  [p1 EXCEPT !.reserve_b = p1.reserve_b - r.amount_b,
                                             !.last_update_slot = c.slot],
                                  r.amount_a, r.amount_b)

SwapRet(e, p, out, fee) == [err |-> e, pool |-> p, amount_out |-> out, fee_amount |-> fee]

\* the handler without the comparison with MIN_SWAP_AMOUNT
swap_no_dust_floor(p, amount_in, min_amount_out, a_to_b, c) ==
    IF p.paused THEN SwapRet("PoolPaused", p, 0, 0)
    ELSE IF ~is_initialized(p) THEN SwapRet("PoolNotInitialized", p, 0, 0)
    ELSE LET reserve_in  == IF a_to_b THEN p.reserve_a ELSE p.reserve_b
             reserve_out == IF a_to_b THEN p.reserve_b ELSE p.reserve_a
             r == calculate_swap_output(amount_in, reserve_in, reserve_out,
                                        p.fee_numerator, p.fee_denominator)
         IN  IF r.err # "Ok" THEN SwapRet(r.err, p, 0, 0)
             ELSE IF r.amount_out < min_amount_out THEN SwapRet("SlippageExceeded", p, 0, 0)
             ELSE IF reserve_in + amount_in > U64_MAX THEN SwapRet("MathOverflow", p, 0, 0)
             ELSE IF reserve_out < r.amount_out THEN SwapRet("MathOverflow", p, 0, 0)
             ELSE LET new_reserve_a == IF a_to_b THEN p.reserve_a + amount_in
                                                 ELSE p.reserve_a - r.amount_out
                      new_reserve_b == IF a_to_b THEN p.reserve_b - r.amount_out
                                                 ELSE p.reserve_b + amount_in
                      gate == verify_invariant(p.reserve_a, p.reserve_b,
                                               new_reserve_a, new_reserve_b)
                  IN  IF gate # "Ok" THEN SwapRet(gate, p, 0, 0)
                      ELSE LET p1 == update_reserves(p, new_reserve_a, new_reserve_b)
                               p2 == IF a_to_b
                                     THEN record_swap(p1, amount_in, r.amount_out, r.fee_amount, 0,
                                                      c.unix_timestamp, c.slot)
                                     ELSE record_swap(p1, r.amount_out, amount_in, 0, r.fee_amount,
                                                      c.unix_timestamp, c.slot)
                           IN  SwapRet("Ok", p2, r.amount_out, r.fee_amount)

swap(p, amount_in, min_amount_out, a_to_b, c) ==
    IF p.paused THEN SwapRet("PoolPaused", p, 0, 0)
    ELSE IF amount_in < MIN_SWAP_AMOUNT THEN SwapRet("AmountTooSmall", p, 0, 0)
    ELSE IF ~is_initialized(p) THEN SwapRet("PoolNotInitialized", p, 0, 0)
    ELSE LET reserve_in  == IF a_to_b THEN p.reserve_a ELSE p.reserve_b
             reserve_out == IF a_to_b THEN p.reserve_b ELSE p.reserve_a
             r == calculate_swap_output(amount_in, reserve_in, reserve_out,
                                        p.fee_numerator, p.fee_denominator)
         IN  IF r.err # "Ok" THEN SwapRet(r.err, p, 0, 0)
             ELSE IF r.amount_out < min_amount_out THEN SwapRet("SlippageExceeded", p, 0, 0)
             ELSE IF reserve_in + amount_in > U64_MAX THEN SwapRet("MathOverflow", p, 0, 0)
             ELSE IF reserve_out < r.amount_out THEN SwapRet("MathOverflow", p, 0, 0)
             ELSE LET new_reserve_a == IF a_to_b THEN p.reserve_a + amount_in
                                                 ELSE p.reserve_a - r.amount_out
                      new_reserve_b == IF a_to_b THEN p.reserve_b - r.amount_out
                                                 ELSE p.reserve_b + amount_in
                      gate == verify_invariant(p.reserve_a, p.reserve_b,
                                               new_reserve_a, new_reserve_b)
                  IN  IF gate # "Ok" THEN SwapRet(gate, p, 0, 0)
                      ELSE LET p1 == update_reserves(p, new_reserve_a, new_reserve_b)
                               p2 == IF a_to_b
                                     THEN record_swap(p1, amount_in, r.amount_out, r.fee_amount, 0,
                                                      c.unix_timestamp, c.slot)
                                     ELSE record_swap(p1, r.amount_out, amount_in, 0, r.fee_amount,
                                                      c.unix_timestamp, c.slot)
                           IN  SwapRet("Ok", p2, r.amount_out, r.fee_amount)

\* ------------------------------------------------------------------------
\* Inputs of the instructions
\* ------------------------------------------------------------------------

NearMax == U64_MAX - 500

\* a divisor of u64::MAX that is a legal first-deposit amount: with its
\* cofactor the product of the two amounts is exactly u64::MAX
MaxFactor == CHOOSE a \in 1000..2000 : U64_MAX % a = 0

\* the least numerator whose product with BPS_DENOMINATOR does not fit in a
\* u64
FeeOverflowNum == (U64_MOD \div BPS_DENOMINATOR) + 1

\* <<fee_numerator, fee_denominator>>
FeeInputs ==
    {<<3, 1000>>, <<1, 10>>, <<0, 1000>>, <<1, 0>>, <<2000, 10000>>,
     <<FeeOverflowNum, 10>>}

\* <<amount_a, amount_b, min_liquidity>>
AddInputs ==
    {<<0, 1000, 0>>, <<1, 4000, 0>>, <<1000, 1000, 0>>, <<1000, 4000, 0>>,
     <<1000, 4000, 1001>>, <<4000, 4000, 2500>>, <<10000, 40000, 19000>>,
     <<1000, NearMax, 0>>, <<NearMax, NearMax, 0>>,
     <<MaxFactor, U64_MAX \div MaxFactor, 0>>}

\* the swap that sends back what the last swap paid out
SwapBack ==
    IF last.op = "swap" /\ last.err = "Ok"
    THEN {<<last.amount_out, 0, ~last.a_to_b>>}
    ELSE {}

\* <<amount_in, min_amount_out, a_to_b>>
SwapInputs ==
    {<<99, 0, TRUE>>, <<100, 0, FALSE>>, <<1500, 0, TRUE>>, <<1500, 0, FALSE>>,
     <<1500, 1200, TRUE>>, <<NearMax, 0, FALSE>>}
        \cup SwapBack

BurnAmounts ==
    {0, 1, user_lp, lp_supply}
        \cup (IF last.op = "add_liquidity" /\ last.err = "Ok" THEN {last.liquidity} ELSE {})

\* <<liquidity_amount, min_amount_a, min_amount_b>>
RemoveInputs ==
    (BurnAmounts \X {0} \X {0}) \cup {<<user_lp, 1500, 0>>, <<user_lp, 0, 1500>>}

\* ------------------------------------------------------------------------
\* Actions: one per instruction of lib.rs.  The program entry commits the
\* handler's Pool, and the token-program effects, only when the handler
\* returns Ok; a failed instruction leaves the stored accounts as they were.
\* vault_a and vault_b count what the handler's token::transfer calls move:
\* the amounts of add_liquidity in, those of remove_liquidity out, amount_in
\* of swap into the input vault and amount_out out of the output vault.
\* ------------------------------------------------------------------------

Tick == [slot |-> clock.slot + 1, unix_timestamp |-> clock.unix_timestamp + 2]

InitializePool ==
    /\ ~created
    /\ call = NoCall
    /\ \E fee \in FeeInputs, overflow_checks \in BOOLEAN :
          LET r == initialize_pool(fee[1], fee[2], overflow_checks, clock)
          IN  /\ created' = (r.err = "Ok")
              /\ pool' = IF r.err = "Ok" THEN r.pool ELSE pool
              /\ last' = [NoOp EXCEPT !.op = "initialize_pool", !.err = r.err,
                                      !.amount_a = fee[1], !.amount_b = fee[2],
                                      !.pre = pool, !.pre_supply = lp_supply,
                                      !.mem = r.pool]
    /\ UNCHANGED <<lp_supply, user_lp, locked_lp, vault_a, vault_b, clock, ops, prev, call>>

AddLiquidity ==
    /\ created
    /\ call = NoCall
    /\ ops < MaxOps
    /\ \E in \in AddInputs :
          LET amount_a == in[1]
              amount_b == in[2]
              min_liquidity == in[3]
              r  == add_liquidity(pool, lp_supply, amount_a, amount_b, min_liquidity, clock)
              ok == r.err = "Ok"
          IN  /\ pool' = IF ok THEN r.pool ELSE pool
              /\ lp_supply' = IF ok THEN lp_supply + r.locked + r.liquidity ELSE lp_supply
              /\ user_lp' = IF ok THEN user_lp + r.liquidity ELSE user_lp
              /\ locked_lp' = IF ok THEN locked_lp + r.locked ELSE locked_lp
              /\ vault_a' = IF ok THEN vault_a + amount_a ELSE vault_a
              /\ vault_b' = IF ok THEN vault_b + amount_b ELSE vault_b
              /\ last' = [NoOp EXCEPT !.op = "add_liquidity", !.err = r.err,
                                      !.amount_a = amount_a, !.amount_b = amount_b,
                                      !.min1 = min_liquidity, !.liquidity = r.liquidity,
                                      !.pre = pool, !.pre_supply = lp_supply,
                                      !.mem = r.pool]
    /\ prev' = (IF last.op = "initialize_pool" THEN NoOp ELSE last)
    /\ clock' = Tick
    /\ ops' = ops + 1
    /\ UNCHANGED <<created, call>>

RemoveLiquidity ==
    /\ created
    /\ call = NoCall
    /\ ops < MaxOps
    /\ \E in \in RemoveInputs :
          LET liquidity_amount == in[1]
              mins == <<in[2], in[3]>>
              r  == remove_liquidity(pool, lp_supply, user_lp, liquidity_amount,
                                     mins[1], mins[2], clock)
              ok == r.err = "Ok"
          IN  /\ pool' = IF ok THEN r.pool ELSE pool
              /\ lp_supply' = IF ok THEN lp_supply - liquidity_amount ELSE lp_supply
              /\ user_lp' = IF ok THEN user_lp - liquidity_amount ELSE user_lp
              /\ vault_a' = IF ok THEN vault_a - r.amount_a ELSE vault_a
              /\ vault_b' = IF ok THEN vault_b - r.amount_b ELSE vault_b
              /\ last' = [NoOp EXCEPT !.op = "remove_liquidity", !.err = r.err,
                                      !.liquidity = liquidity_amount,
                                      !.min1 = mins[1], !.min2 = mins[2],
                                      !.amount_a = r.amount_a, !.amount_b = r.amount_b,
                                      !.pre = pool, !.pre_supply = lp_supply,
                                      !.mem = r.pool]
    /\ prev' = (IF last.op = "initialize_pool" THEN NoOp ELSE last)
    /\ clock' = Tick
    /\ ops' = ops + 1
    /\ UNCHANGED <<created, locked_lp, call>>

Swap ==
    /\ created
    /\ call = NoCall
    /\ ops < MaxOps
    /\ \E in \in SwapInputs :
          LET amount_in == in[1]
              min_amount_out == in[2]
              a_to_b == in[3]
              r  == swap(pool, amount_in, min_amount_out, a_to_b, clock)
              ok == r.err = "Ok"
              vault_in  == IF a_to_b THEN vault_a ELSE vault_b
              vault_out == IF a_to_b THEN vault_b ELSE vault_a
              new_in  == IF ok THEN vault_in + amount_in ELSE vault_in
              new_out == IF ok THEN vault_out - r.amount_out ELSE vault_out
          IN  /\ pool' = IF ok THEN r.pool ELSE pool
              /\ vault_a' = IF a_to_b THEN new_in ELSE new_out
              /\ vault_b' = IF a_to_b THEN new_out ELSE new_in
              /\ last' = [NoOp EXCEPT !.op = "swap", !.err = r.err,
                                      !.amount_in = amount_in, !.min1 = min_amount_out,
                                      !.a_to_b = a_to_b, !.amount_out = r.amount_out,
                                      !.fee_amount = r.fee_amount,
                                      !.pre = pool, !.pre_supply = lp_supply,
                                      !.mem = r.pool]
    /\ prev' = (IF last.op = "initialize_pool" THEN NoOp ELSE last)
    /\ clock' = Tick
    /\ ops' = ops + 1
    /\ UNCHANGED <<created, lp_supply, user_lp, locked_lp, call>>

Next == InitializePool \/ AddLiquidity \/ RemoveLiquidity \/ Swap

Spec == Init /\ [][Next]_vars

\* ------------------------------------------------------------------------
\* Direct calls of the math.rs functions, on inputs over the whole word:
\* one call per behaviour, from the initial state
\* ------------------------------------------------------------------------

HalfMod == U64_MOD \div 2

MathVals == {0, 1, 2, 3, 1000, HalfMod, U64_MAX}

pool_vars ==
    <<created, pool, lp_supply, user_lp, locked_lp, vault_a, vault_b, clock, ops, last, prev>>

CallSwapOutput ==
    /\ call = NoCall
    /\ last = NoOp
    /\ \E amount_in \in MathVals, reserve_in \in MathVals, reserve_out \in MathVals,
          fee_numerator \in MathVals, fee_denominator \in MathVals :
          call' = [fn |-> "calculate_swap_output",
                   amount_in |-> amount_in, reserve_in |-> reserve_in,
                   reserve_out |-> reserve_out, fee_numerator |-> fee_numerator,
                   fee_denominator |-> fee_denominator,
                   ret |-> calculate_swap_output(amount_in, reserve_in, reserve_out,
                                                 fee_numerator, fee_denominator)]
    /\ UNCHANGED pool_vars

CallLiquidityToMint ==
    /\ call = NoCall
    /\ last = NoOp
    /\ \E amount_a \in MathVals, amount_b \in MathVals, reserve_a \in MathVals,
          reserve_b \in MathVals, total_supply \in MathVals :
          call' = [fn |-> "calculate_liquidity_to_mint",
                   amount_a |-> amount_a, amount_b |-> amount_b,
                   reserve_a |-> reserve_a, reserve_b |-> reserve_b,
                   total_supply |-> total_supply,
                   ret |-> calculate_liquidity_to_mint(amount_a, amount_b, reserve_a,
                                                       reserve_b, total_supply)]
    /\ UNCHANGED pool_vars

CallAmountsForLiquidity ==
    /\ call = NoCall
    /\ last = NoOp
    /\ \E liquidity \in MathVals, reserve_a \in MathVals, reserve_b \in MathVals,
          total_supply \in MathVals :
          call' = [fn |-> "calculate_amounts_for_liquidity",
                   liquidity |-> liquidity, reserve_a |-> reserve_a,
                   reserve_b |-> reserve_b, total_supply |-> total_supply,
                   ret |-> calculate_amounts_for_liquidity(liquidity, reserve_a, reserve_b,
                                                           total_supply)]
    /\ UNCHANGED pool_vars

\* amounts of a first deposit
InitVals ==
    {0, 1, 999, 1000, 1001, 10000, 40000, MaxFactor, U64_MAX \div MaxFactor,
     HalfMod, U64_MAX}

CallInitialLiquidity ==
    /\ call = NoCall
    /\ last = NoOp
    /\ \E amount_a \in InitVals, amount_b \in InitVals :
          call' = [fn |-> "calculate_initial_liquidity",
                   amount_a |-> amount_a, amount_b |-> amount_b,
                   ret |-> calculate_initial_liquidity(amount_a, amount_b)]
    /\ UNCHANGED pool_vars

FeeNumerators == {0, 1, 3, 5, 2000, FeeOverflowNum, 2 * FeeOverflowNum, HalfMod, U64_MAX}

FeeDenominators == {0, 1, 10, 100, 1000, 10000, 10 * FeeOverflowNum, HalfMod, U64_MAX}

CallValidateFee ==
    /\ call = NoCall
    /\ last = NoOp
    /\ \E numerator \in FeeNumerators, denominator \in FeeDenominators,
          overflow_checks \in BOOLEAN :
          call' = [fn |-> "validate_fee",
                   numerator |-> numerator, denominator |-> denominator,
                   overflow_checks |-> overflow_checks,
                   ret |-> validate_fee(numerator, denominator, overflow_checks)]
    /\ UNCHANGED pool_vars

\* arguments of sqrt: the small values, squares and their neighbours, and
\* the top of the word
SqrtVals ==
    (0..300)
        \cup {k * k + d : k \in {1000, 4096, 23170}, d \in {-1, 0, 1}}
        \cup {HalfMod - 1, HalfMod, U64_MAX - 2, U64_MAX - 1, U64_MAX}

CallSqrt ==
    /\ call = NoCall
    /\ last = NoOp
    /\ \E y \in SqrtVals :
          call' = [fn |-> "sqrt", y |-> y, ret |-> sqrt(y)]
    /\ UNCHANGED pool_vars

\* a Pool with reserves, a valid fee and every statistics counter at n
PoolWithCounters(n) ==
    [ZeroPool EXCEPT !.reserve_a = 10000, !.reserve_b = 40000,
                     !.fee_numerator = 3, !.fee_denominator = 1000,
                     !.total_swaps = n,
                     !.cumulative_volume_a = n, !.cumulative_volume_b = n,
                     !.cumulative_fees_a = n, !.cumulative_fees_b = n]

CounterVals == {0, 1, HalfMod, U64_MAX - 1, U64_MAX}

VolumeVals == {0, 1, HalfMod, U64_MAX}

CallRecordSwap ==
    /\ call = NoCall
    /\ last = NoOp
    /\ \E n \in CounterVals, volume_a \in VolumeVals, volume_b \in VolumeVals,
          fee_a \in VolumeVals, fee_b \in VolumeVals :
          call' = [fn |-> "record_swap", p |-> PoolWithCounters(n),
                   volume_a |-> volume_a, volume_b |-> volume_b,
                   fee_a |-> fee_a, fee_b |-> fee_b,
                   ret |-> record_swap(PoolWithCounters(n), volume_a, volume_b, fee_a, fee_b,
                                       clock.unix_timestamp, clock.slot)]
    /\ UNCHANGED pool_vars

\* the swap handler on a Pool whose counters are at or next to the top
CallSwap ==
    /\ call = NoCall
    /\ last = NoOp
    /\ \E n \in CounterVals, amount_in \in {100, 1500, 40000}, a_to_b \in BOOLEAN :
          call' = [fn |-> "swap", p |-> PoolWithCounters(n),
                   amount_in |-> amount_in, a_to_b |-> a_to_b,
                   ret |-> swap(PoolWithCounters(n), amount_in, 0, a_to_b, clock)]
    /\ UNCHANGED pool_vars

CallVerifyInvariant ==
    /\ call = NoCall
    /\ last = NoOp
    /\ \E old_reserve_a \in MathVals, old_reserve_b \in MathVals,
          new_reserve_a \in MathVals, new_reserve_b \in MathVals :
          call' = [fn |-> "verify_invariant",
                   old_reserve_a |-> old_reserve_a, old_reserve_b |-> old_reserve_b,
                   new_reserve_a |-> new_reserve_a, new_reserve_b |-> new_reserve_b,
                   ret |-> verify_invariant(old_reserve_a, old_reserve_b,
                                            new_reserve_a, new_reserve_b)]
    /\ UNCHANGED pool_vars

\* <<fee_numerator, fee_denominator>> of a computation
GateFees == {<<0, 1>>, <<3, 1000>>, <<1, 10>>, <<1, 1>>, <<HalfMod, 1>>}

\* the computation of the swap handler up to the gate, on any reserves:
\* calculate_swap_output, the new reserves, verify_invariant.  gate is
\* "none" when the handler returns before it.
CallSwapThenVerify ==
    /\ call = NoCall
    /\ last = NoOp
    /\ \E amount_in \in MathVals, reserve_in \in MathVals, reserve_out \in MathVals,
          fee \in GateFees, a_to_b \in BOOLEAN :
          LET r == calculate_swap_output(amount_in, reserve_in, reserve_out, fee[1], fee[2])
              reached == r.err = "Ok" /\ reserve_in + amount_in <= U64_MAX
                                      /\ r.amount_out <= reserve_out
          IN  call' = [fn |-> "swap_then_verify",
                       amount_in |-> amount_in, reserve_in |-> reserve_in,
                       reserve_out |-> reserve_out, fee_numerator |-> fee[1],
                       fee_denominator |-> fee[2], a_to_b |-> a_to_b,
                       ret |-> r,
                       gate |-> IF ~reached THEN "none"
                                ELSE IF a_to_b
                                THEN verify_invariant(reserve_in, reserve_out,
                                                      reserve_in + amount_in,
                                                      reserve_out - r.amount_out)
                                ELSE verify_invariant(reserve_out, reserve_in,
                                                      reserve_out - r.amount_out,
                                                      reserve_in + amount_in)]
    /\ UNCHANGED pool_vars

\* a Pool with the given reserves and fee
PoolWithReserves(reserve_a, reserve_b, fee) ==
    [ZeroPool EXCEPT !.reserve_a = reserve_a, !.reserve_b = reserve_b,
                     !.fee_numerator = fee[1], !.fee_denominator = fee[2]]

\* reserves of a pool, from the smallest a first deposit leaves to the top
\* of the word
ReserveVals == {1000, 1001, 10000, 40000, HalfMod, NearMax}

\* amounts swapped in
SwapVals == {100, 101, 333, 1500, 40000, HalfMod}

\* <<fee_numerator, fee_denominator>> that validate_fee accepts: 1, 30, 125
\* and 1000 basis points
ValidFees == {<<1, 10000>>, <<3, 1000>>, <<1, 80>>, <<1, 10>>}

\* two swap instructions in a row on one Pool: amount_in one way, then what
\* it paid out the other way.  second is the first result when the first
\* swap fails.
CallSwapRoundTrip ==
    /\ call = NoCall
    /\ last = NoOp
    /\ \E reserve_a \in ReserveVals, reserve_b \in ReserveVals, fee \in ValidFees,
          amount_in \in SwapVals, a_to_b \in BOOLEAN :
          LET p == PoolWithReserves(reserve_a, reserve_b, fee)
              first == swap(p, amount_in, 0, a_to_b, clock)
          IN  call' = [fn |-> "swap_round_trip", p |-> p,
                       amount_in |-> amount_in, a_to_b |-> a_to_b,
                       first |-> first,
                       second |-> IF first.err = "Ok"
                                  THEN swap(first.pool, first.amount_out, 0, ~a_to_b, Tick)
                                  ELSE first]
    /\ UNCHANGED pool_vars

\* a Pool with reserves and swaps behind it whose paused flag is set.  No
\* instruction of the program sets the flag, so the handlers meet such a
\* Pool only when called on it directly.
PausedPool == [PoolWithCounters(1) EXCEPT !.paused = TRUE]

\* the LP supply of PausedPool and the balance of the provider: the supply
\* less the lock
PausedSupply == 20000

PausedBalance == PausedSupply - MINIMUM_LIQUIDITY

CallSwapPaused ==
    /\ call = NoCall
    /\ last = NoOp
    /\ \E amount_in \in {99, 100, 1500, 40000}, min_amount_out \in {0, 1000},
          a_to_b \in BOOLEAN :
          call' = [fn |-> "swap_paused", p |-> PausedPool,
                   amount_in |-> amount_in, a_to_b |-> a_to_b,
                   ret |-> swap(PausedPool, amount_in, min_amount_out, a_to_b, clock)]
    /\ UNCHANGED pool_vars

CallAddLiquidityPaused ==
    /\ call = NoCall
    /\ last = NoOp
    /\ \E in \in AddInputs :
          call' = [fn |-> "add_liquidity_paused", p |-> PausedPool,
                   amount_a |-> in[1], amount_b |-> in[2],
                   ret |-> add_liquidity(PausedPool, PausedSupply, in[1], in[2], in[3], clock)]
    /\ UNCHANGED pool_vars

\* remove_liquidity on the paused Pool and on the same Pool not paused
CallRemoveLiquidityPaused ==
    /\ call = NoCall
    /\ last = NoOp
    /\ \E liquidity_amount \in {0, 1, 2, 1000, PausedBalance, PausedBalance + 1, PausedSupply},
          min_amount_a \in {0, 1000} :
          call' = [fn |-> "remove_liquidity_paused", p |-> PausedPool,
                   liquidity_amount |-> liquidity_amount,
                   ret |-> remove_liquidity(PausedPool, PausedSupply, PausedBalance,
                                            liquidity_amount, min_amount_a, 0, clock),
                   unpaused |-> remove_liquidity([PausedPool EXCEPT !.paused = FALSE],
                                                 PausedSupply, PausedBalance,
                                                 liquidity_amount, min_amount_a, 0, clock)]
    /\ UNCHANGED pool_vars

MathNext ==
    \/ CallSwapOutput
    \/ CallLiquidityToMint
    \/ CallAmountsForLiquidity
    \/ CallInitialLiquidity
    \/ CallValidateFee
    \/ CallSqrt
    \/ CallRecordSwap
    \/ CallSwap
    \/ CallVerifyInvariant
    \/ CallSwapThenVerify
    \/ CallSwapRoundTrip
    \/ CallSwapPaused
    \/ CallAddLiquidityPaused
    \/ CallRemoveLiquidityPaused

MathSpec == Init /\ [][MathNext]_vars

\* the instructions and the direct calls in one specification: a behaviour
\* either runs instructions on the pool or makes one direct call
AllNext == Next \/ MathNext
AllSpec == Init /\ [][AllNext]_vars

\* ------------------------------------------------------------------------
\* Vocabulary of the properties
\* ------------------------------------------------------------------------

U128(x) == [hi |-> 0, lo |-> x]

\* q = floor(x * y / d), stated on the products: q * d <= x * y < (q + 1) * d
IsFloor(q, x, y, d) ==
    /\ d > 0
    /\ u128_le(u128_mul(q, d), u128_mul(x, y))
    /\ u128_lt(u128_mul(x, y), u128_mul(q + 1, d))

\* q <= floor(x * y / d)
AtMostFloor(q, x, y, d) == d > 0 /\ u128_le(u128_mul(q, d), u128_mul(x, y))

\* floor(x * y / d) = 0
FloorIsZero(x, y, d) == d > 0 /\ u128_lt(u128_mul(x, y), U128(d))

K(p) == u128_mul(p.reserve_a, p.reserve_b)

Ok(op) == last.op = op /\ last.err = "Ok"

ReserveOut(p, a_to_b) == IF a_to_b THEN p.reserve_b ELSE p.reserve_a

\* x * y / d is less than 2^64: the quotient fits the u64 it is cast to
QuotientFits(x, y, d) == u128_lt(u128_mul(x, y), u128_mul(U64_MOD, d))

\* ------------------------------------------------------------------------
\* Properties
\* ------------------------------------------------------------------------

\* C1: after every instruction other than a successful remove_liquidity
\* (a successful swap in either direction, a successful add_liquidity, any
\* failed instruction) reserve_a * reserve_b is at least what it was before
\* the instruction.
C1_ProductNeverDecreases ==
    ~Ok("remove_liquidity") => u128_le(K(last.pre), K(pool))

\* a successful swap of B for A on a pool whose product it raises
C1_Witness ==
    /\ Ok("swap")
    /\ ~last.a_to_b
    /\ u128_lt(K(last.pre), K(pool))

\* a successful add_liquidity on an initialized pool raises the product
C1_WitnessAdd ==
    /\ Ok("add_liquidity")
    /\ is_initialized(last.pre)
    /\ u128_lt(K(last.pre), K(pool))

\* a successful remove_liquidity lowers the product
C1_WitnessRemove ==
    /\ Ok("remove_liquidity")
    /\ u128_lt(K(pool), K(last.pre))

\* C2: whenever calculate_swap_output succeeds, amount_out is strictly less
\* than reserve_out; and after a successful swap the amount paid out is less
\* than the reserve it came from and that reserve is still positive.
C2_OutputBelowReserve ==
    /\ (call.fn = "calculate_swap_output" /\ call.ret.err = "Ok")
          => (call.ret.amount_out > 0 /\ call.ret.amount_out < call.reserve_out)
    /\ Ok("swap")
          => /\ last.amount_out < ReserveOut(last.pre, last.a_to_b)
             /\ ReserveOut(pool, last.a_to_b) = ReserveOut(last.pre, last.a_to_b) - last.amount_out
             /\ ReserveOut(pool, last.a_to_b) > 0

\* a successful swap that pays out more than half of the output reserve
C2_Witness ==
    /\ Ok("swap")
    /\ 2 * last.amount_out > ReserveOut(last.pre, last.a_to_b)
    /\ ReserveOut(pool, last.a_to_b) > 0

\* a direct call that succeeds with the largest input against a small reserve
C2_WitnessCall ==
    /\ call.fn = "calculate_swap_output"
    /\ call.ret.err = "Ok"
    /\ call.amount_in = U64_MAX
    /\ call.reserve_in = 1
    /\ call.ret.amount_out = call.reserve_out - 1

\* C3: when swap, add_liquidity or remove_liquidity returns an error, every
\* field of the Pool the handler was given equals its value before the call.
C3_FailureLeavesPoolUntouched ==
    (last.op \in {"swap", "add_liquidity", "remove_liquidity"} /\ last.err # "Ok")
        => last.mem = last.pre

\* the failure that has written: add_liquidity returns MathOverflow from the
\* sum for reserve_b with reserve_a already assigned
C3_PartialWrite ==
    /\ last.op = "add_liquidity"
    /\ last.err = "MathOverflow"
    /\ last.mem.reserve_a = last.pre.reserve_a + last.amount_a
    /\ last.mem.reserve_b = last.pre.reserve_b
    /\ last.amount_a > 0

\* what the program entry keeps of it: the stored Pool account is the one
\* from before a failed instruction
C3_StoredAccountKept ==
    last.err # "Ok" => pool = last.pre

\* C4: in every state of the pool reserve_a is 0 exactly when reserve_b is 0.
C4_NeverOneSided ==
    (pool.reserve_a = 0) <=> (pool.reserve_b = 0)

\* the provider has withdrawn every LP token they hold and both reserves
\* are still positive
C4_Witness ==
    /\ Ok("remove_liquidity")
    /\ user_lp = 0
    /\ pool.reserve_a > 0
    /\ pool.reserve_b > 0

\* C5: in every state between instructions the LP supply is positive
\* exactly when the pool is initialized.
C5_SupplyIffInitialized ==
    (lp_supply > 0) <=> is_initialized(pool)

\* the whole of the provider's LP tokens burned: the supply left is the
\* locked MINIMUM_LIQUIDITY and the pool is still initialized
C5_Witness ==
    /\ Ok("remove_liquidity")
    /\ last.pre_supply > MINIMUM_LIQUIDITY
    /\ lp_supply = MINIMUM_LIQUIDITY
    /\ locked_lp = MINIMUM_LIQUIDITY
    /\ is_initialized(pool)

\* the last two instructions are a successful add_liquidity and a successful
\* remove_liquidity of exactly the LP tokens it credited
RoundTrip ==
    /\ prev.op = "add_liquidity"
    /\ prev.err = "Ok"
    /\ Ok("remove_liquidity")
    /\ last.liquidity = prev.liquidity

\* C6: when a successful add_liquidity(amount_a, amount_b) that credits L LP
\* tokens is followed at once by a successful remove_liquidity(L), the
\* amounts returned are at most amount_a and amount_b, on the first deposit
\* and on later ones.
C6_RoundTripReturnsNoMore ==
    RoundTrip => (last.amount_a <= prev.amount_a /\ last.amount_b <= prev.amount_b)

\* a round trip on an initialized pool, with a deposit off the pool's ratio
\* that gets back strictly less of one token
C6_Witness ==
    /\ RoundTrip
    /\ is_initialized(prev.pre)
    /\ last.amount_a <= prev.amount_a
    /\ last.amount_b < prev.amount_b

\* a round trip on the first deposit
C6_WitnessFirst ==
    /\ RoundTrip
    /\ ~is_initialized(prev.pre)
    /\ last.amount_a < prev.amount_a

\* the direct call was calculate_liquidity_to_mint on an initialized pool
MintCall ==
    /\ call.fn = "calculate_liquidity_to_mint"
    /\ call.reserve_a > 0
    /\ call.reserve_b > 0
    /\ call.total_supply > 0

\* what C7 states of the result of the call
MintIsExactMinimum ==
    IF \/ FloorIsZero(call.amount_a, call.total_supply, call.reserve_a)
       \/ FloorIsZero(call.amount_b, call.total_supply, call.reserve_b)
    THEN call.ret.err = "InsufficientLiquidityMinted"
    ELSE /\ call.ret.err = "Ok"
         /\ AtMostFloor(call.ret.liquidity, call.amount_a, call.total_supply, call.reserve_a)
         /\ AtMostFloor(call.ret.liquidity, call.amount_b, call.total_supply, call.reserve_b)
         /\ \/ IsFloor(call.ret.liquidity, call.amount_a, call.total_supply, call.reserve_a)
            \/ IsFloor(call.ret.liquidity, call.amount_b, call.total_supply, call.reserve_b)

\* C7: for all u64 inputs with reserve_a > 0, reserve_b > 0 and
\* total_supply > 0, calculate_liquidity_to_mint returns the smaller of
\* floor(amount_a * total_supply / reserve_a) and
\* floor(amount_b * total_supply / reserve_b) when it is positive and fails
\* with InsufficientLiquidityMinted when it is 0.
C7_ExactMinimum ==
    MintCall => MintIsExactMinimum

\* the same on the inputs whose two quotients fit in a u64
C7_ExactMinimumWhenQuotientsFit ==
    (/\ MintCall
     /\ QuotientFits(call.amount_a, call.total_supply, call.reserve_a)
     /\ QuotientFits(call.amount_b, call.total_supply, call.reserve_b))
        => MintIsExactMinimum

\* a call whose token-A quotient is 2^64 and is cast to 0: the call fails
\* although the smaller quotient is positive
C7_TruncatedCandidate ==
    /\ MintCall
    /\ ~QuotientFits(call.amount_a, call.total_supply, call.reserve_a)
    /\ ~FloorIsZero(call.amount_b, call.total_supply, call.reserve_b)
    /\ call.ret.err = "InsufficientLiquidityMinted"

\* C8: a successful add_liquidity on an initialized pool that mints L at
\* supply T keeps (reserve_a + amount_a) * T >= reserve_a * (T + L) and
\* (reserve_b + amount_b) * T >= reserve_b * (T + L), the sums being the new
\* reserves and T + L the new supply.
C8_AntiDilution ==
    (Ok("add_liquidity") /\ is_initialized(last.pre))
        => /\ pool.reserve_a = last.pre.reserve_a + last.amount_a
           /\ pool.reserve_b = last.pre.reserve_b + last.amount_b
           /\ lp_supply = last.pre_supply + last.liquidity
           /\ u128_le(u128_mul(last.pre.reserve_a, lp_supply),
                      u128_mul(pool.reserve_a, last.pre_supply))
           /\ u128_le(u128_mul(last.pre.reserve_b, lp_supply),
                      u128_mul(pool.reserve_b, last.pre_supply))

\* a successful deposit on an initialized pool off the pool's ratio: the
\* backing of token B per share strictly grows
C8_Witness ==
    /\ Ok("add_liquidity")
    /\ is_initialized(last.pre)
    /\ last.liquidity > 0
    /\ u128_lt(u128_mul(last.pre.reserve_b, lp_supply),
               u128_mul(pool.reserve_b, last.pre_supply))

\* the direct call was a successful calculate_swap_output
SwapCallOk ==
    /\ call.fn = "calculate_swap_output"
    /\ call.ret.err = "Ok"

\* what C9 states of the result of the call
SwapOutputIsExact ==
    /\ IsFloor(call.ret.fee_amount, call.amount_in, call.fee_numerator, call.fee_denominator)
    /\ call.ret.fee_amount <= call.amount_in
    /\ IsFloor(call.ret.amount_out, call.amount_in - call.ret.fee_amount, call.reserve_out,
               call.reserve_in + (call.amount_in - call.ret.fee_amount))

\* C9: whenever calculate_swap_output succeeds, fee_amount is
\* floor(amount_in * fee_numerator / fee_denominator) and amount_out is
\* floor(n * reserve_out / (reserve_in + n)) with n = amount_in - fee_amount.
C9_ExactFeeAndOutput ==
    SwapCallOk => SwapOutputIsExact

\* the same on the inputs whose fee quotient fits in a u64
C9_ExactWhenFeeFits ==
    (SwapCallOk /\ QuotientFits(call.amount_in, call.fee_numerator, call.fee_denominator))
        => SwapOutputIsExact

\* a successful call whose fee quotient is 2^64 and is cast to 0
C9_TruncatedFee ==
    /\ SwapCallOk
    /\ ~QuotientFits(call.amount_in, call.fee_numerator, call.fee_denominator)
    /\ call.ret.fee_amount = 0

\* C10: calculate_amounts_for_liquidity succeeds only when
\* 0 < liquidity <= total_supply and then returns
\* floor(reserve_a * liquidity / total_supply) and
\* floor(reserve_b * liquidity / total_supply), both positive and at most
\* the reserves; with 0 < liquidity <= total_supply it fails with
\* InsufficientOutputAmount whenever one of the two quotients is 0.
C10_AmountsForLiquidity ==
    call.fn = "calculate_amounts_for_liquidity"
        => /\ call.ret.err = "Ok"
                => /\ 0 < call.liquidity
                   /\ call.liquidity <= call.total_supply
                   /\ IsFloor(call.ret.amount_a, call.reserve_a, call.liquidity, call.total_supply)
                   /\ IsFloor(call.ret.amount_b, call.reserve_b, call.liquidity, call.total_supply)
                   /\ 0 < call.ret.amount_a
                   /\ 0 < call.ret.amount_b
                   /\ call.ret.amount_a <= call.reserve_a
                   /\ call.ret.amount_b <= call.reserve_b
           /\ (/\ 0 < call.liquidity
               /\ call.liquidity <= call.total_supply
               /\ \/ FloorIsZero(call.reserve_a, call.liquidity, call.total_supply)
                  \/ FloorIsZero(call.reserve_b, call.liquidity, call.total_supply))
                => call.ret.err = "InsufficientOutputAmount"

\* a successful call for part of the supply whose token-A amount is rounded
\* down
C10_Witness ==
    /\ call.fn = "calculate_amounts_for_liquidity"
    /\ call.ret.err = "Ok"
    /\ call.liquidity < call.total_supply
    /\ u128_lt(u128_mul(call.ret.amount_a, call.total_supply),
               u128_mul(call.reserve_a, call.liquidity))

\* a call within the supply that fails because one amount is 0 and the other
\* is not
C10_WitnessZeroAmount ==
    /\ call.fn = "calculate_amounts_for_liquidity"
    /\ 0 < call.liquidity
    /\ call.liquidity <= call.total_supply
    /\ FloorIsZero(call.reserve_a, call.liquidity, call.total_supply)
    /\ ~FloorIsZero(call.reserve_b, call.liquidity, call.total_supply)
    /\ call.ret.err = "InsufficientOutputAmount"

\* r = floor(sqrt(y)): r * r <= y < (r + 1) * (r + 1)
IsSqrt(r, y) ==
    /\ u128_le(u128_mul(r, r), U128(y))
    /\ u128_lt(U128(y), u128_mul(r + 1, r + 1))

\* the last instruction was an add_liquidity on a pool that is not initialized
FirstDeposit == last.op = "add_liquidity" /\ ~is_initialized(last.pre)

DepositProduct == u128_mul(last.amount_a, last.amount_b)

CallProduct == u128_mul(call.amount_a, call.amount_b)

C11_WitnessZeroAmount ==
    /\ FirstDeposit
    /\ last.amount_a = 0
    /\ last.err = "AmountTooSmall"

\* a first deposit of legal amounts whose product is exactly u64::MAX: the
\* square root aborts
C11_WitnessProductMax ==
    /\ FirstDeposit
    /\ last.amount_a >= MIN_INITIAL_LIQUIDITY
    /\ last.amount_b >= MIN_INITIAL_LIQUIDITY
    /\ DepositProduct = U128(U64_MAX)
    /\ last.err = "Panic"

\* C12: a successful first deposit credits the depositor
\* floor(sqrt(amount_a * amount_b)) - 1000 LP tokens and mints 1000 to the
\* vault, so the supply right after is floor(sqrt(amount_a * amount_b)); and
\* in every state from then on the supply is at least 1000, 1000 of it is
\* held by the vault, and the LP tokens the provider can redeem are at most
\* the supply minus 1000.
C12_MinimumLiquidityLocked ==
    /\ (FirstDeposit /\ last.err = "Ok")
          => /\ last.pre_supply = 0
             /\ IsSqrt(last.liquidity + MINIMUM_LIQUIDITY, DepositProduct.lo)
             /\ user_lp = last.liquidity
             /\ locked_lp = MINIMUM_LIQUIDITY
             /\ IsSqrt(lp_supply, DepositProduct.lo)
    /\ (is_initialized(pool) \/ lp_supply > 0)
          => /\ lp_supply >= MINIMUM_LIQUIDITY
             /\ locked_lp = MINIMUM_LIQUIDITY
             /\ lp_supply = user_lp + locked_lp
             /\ user_lp <= lp_supply - MINIMUM_LIQUIDITY

\* the first deposit (1000, 4000): 2000 computed, 1000 credited, 1000 locked
C12_Witness ==
    /\ FirstDeposit
    /\ last.err = "Ok"
    /\ last.amount_a = 1000
    /\ last.amount_b = 4000
    /\ user_lp = 1000
    /\ locked_lp = MINIMUM_LIQUIDITY
    /\ lp_supply = 2000

\* a later state in which the provider has been refused the burn of the
\* whole supply
C12_WitnessCannotRedeemLock ==
    /\ last.op = "remove_liquidity"
    /\ last.liquidity = lp_supply
    /\ last.err = "TokenInsufficientFunds"
    /\ locked_lp = MINIMUM_LIQUIDITY

\* once minted the locked LP tokens stay: no instruction takes them back
C12_LockIsPermanent ==
    [][locked_lp = MINIMUM_LIQUIDITY => locked_lp' = MINIMUM_LIQUIDITY]_vars

\* the direct call was calculate_swap_output with arguments that pass the
\* checks made before the fee is computed
SwapCallComputes ==
    /\ call.fn = "calculate_swap_output"
    /\ call.amount_in > 0
    /\ call.reserve_in > 0
    /\ call.reserve_out > 0

\* C13: in calculate_swap_output and calculate_liquidity_to_mint a quotient
\* floor(x * y / d) above 2^64 - 1 makes the call fail with MathOverflow, and
\* a zero fee_denominator makes calculate_swap_output fail with
\* DivisionByZero; no call returns a quotient reduced modulo 2^64.
C13_QuotientOverflowFails ==
    /\ (/\ MintCall
        /\ \/ ~QuotientFits(call.amount_a, call.total_supply, call.reserve_a)
           \/ ~QuotientFits(call.amount_b, call.total_supply, call.reserve_b))
          => call.ret.err = "MathOverflow"
    /\ (/\ SwapCallComputes
        /\ call.fee_denominator > 0
        /\ ~QuotientFits(call.amount_in, call.fee_numerator, call.fee_denominator))
          => call.ret.err = "MathOverflow"
    /\ (SwapCallComputes /\ call.fee_denominator = 0)
          => call.ret.err = "DivisionByZero"

\* a call that returns a quotient reduced modulo 2^64:
\* calculate_liquidity_to_mint(u64::MAX, u64::MAX, 1, 1, 3) = 2^64 - 3
C13_ReducedQuotientReturned ==
    /\ MintCall
    /\ call.amount_a = U64_MAX
    /\ call.amount_b = U64_MAX
    /\ call.reserve_a = 1
    /\ call.reserve_b = 1
    /\ call.total_supply = 3
    /\ call.ret.err = "Ok"
    /\ call.ret.liquidity = U64_MOD - 3

\* the part that holds: a zero fee_denominator is DivisionByZero, and in
\* calculate_amounts_for_liquidity the quotients computed, with
\* 0 < liquidity <= total_supply, always fit
C13_DivisionByZeroAndWithdrawalFit ==
    /\ (SwapCallComputes /\ call.fee_denominator = 0)
          => call.ret.err = "DivisionByZero"
    /\ (/\ call.fn = "calculate_amounts_for_liquidity"
        /\ 0 < call.liquidity
        /\ call.liquidity <= call.total_supply)
          => /\ QuotientFits(call.reserve_a, call.liquidity, call.total_supply)
             /\ QuotientFits(call.reserve_b, call.liquidity, call.total_supply)

\* 1 <= floor(numerator * 10000 / denominator) <= 1000, on the 128-bit
\* product
FeeInRange(numerator, denominator) ==
    /\ denominator # 0
    /\ u128_le(u128_mul(MIN_FEE_BPS, denominator), u128_mul(numerator, BPS_DENOMINATOR))
    /\ u128_lt(u128_mul(numerator, BPS_DENOMINATOR), u128_mul(MAX_FEE_BPS + 1, denominator))

\* numerator * 10000 fits in a u64
FeeProductFits(numerator) == u128_mul(numerator, BPS_DENOMINATOR).hi = 0

\* C14: for all u64 (numerator, denominator), also when numerator * 10000
\* does not fit in 64 bits, validate_fee returns a boolean, and true exactly
\* when denominator # 0 and 1 <= floor(numerator * 10000 / denominator) <= 1000.
C14_ValidateFeeExact ==
    call.fn = "validate_fee"
        => /\ call.ret \in {"true", "false"}
           /\ (call.ret = "true") <=> FeeInRange(call.numerator, call.denominator)

\* the same for the numerators whose product with 10000 fits in 64 bits,
\* with the three examples of the claim
C14_ValidateFeeExactWhenProductFits ==
    /\ (call.fn = "validate_fee" /\ FeeProductFits(call.numerator))
          => /\ call.ret \in {"true", "false"}
             /\ (call.ret = "true") <=> FeeInRange(call.numerator, call.denominator)
    /\ validate_fee(1, 100, TRUE) = "true"
    /\ validate_fee(1, 0, TRUE) = "false"
    /\ validate_fee(2000, 10000, TRUE) = "false"

\* a build without overflow checks: the product wraps and a fee far above
\* 100% is accepted
C14_WrappedProductAccepted ==
    /\ call.fn = "validate_fee"
    /\ ~call.overflow_checks
    /\ call.numerator = FeeOverflowNum
    /\ call.denominator = 10
    /\ ~FeeInRange(call.numerator, call.denominator)
    /\ call.ret = "true"

\* a build with overflow checks: the multiplication aborts on a fee that is
\* in range
C14_WitnessPanic ==
    /\ call.fn = "validate_fee"
    /\ call.overflow_checks
    /\ FeeInRange(call.numerator, call.denominator)
    /\ call.ret = "panic"

\* C15: for every u64 y, 2^64 - 1 included, sqrt(y) returns the r with
\* r * r <= y < (r + 1) * (r + 1).
C15_SqrtIsFloorRoot ==
    call.fn = "sqrt" => (call.ret.err = "Ok" /\ IsSqrt(call.ret.val, call.y))

\* the same for every y below 2^64 - 1
C15_SqrtIsFloorRootBelowMax ==
    (call.fn = "sqrt" /\ call.y < U64_MAX)
        => (call.ret.err = "Ok" /\ IsSqrt(call.ret.val, call.y))

\* sqrt(2^64 - 1) aborts
C15_SqrtOfMaxAborts ==
    /\ call.fn = "sqrt"
    /\ call.y = U64_MAX
    /\ call.ret.err = "Panic"

\* C16: every swap with amount_in < MIN_SWAP_AMOUNT fails with
\* AmountTooSmall with nothing computed and the pool as it was, and no
\* successful swap has amount_in < MIN_SWAP_AMOUNT.
C16_DustSwapRejected ==
    /\ (last.op = "swap" /\ last.amount_in < MIN_SWAP_AMOUNT)
          => /\ last.err = "AmountTooSmall"
             /\ last.amount_out = 0
             /\ last.fee_amount = 0
             /\ last.mem = last.pre
             /\ pool = last.pre
    /\ Ok("swap") => last.amount_in >= MIN_SWAP_AMOUNT

\* a swap of 99 on an initialized pool, rejected
C16_Witness ==
    /\ last.op = "swap"
    /\ last.amount_in = MIN_SWAP_AMOUNT - 1
    /\ is_initialized(last.pre)
    /\ last.err = "AmountTooSmall"

\* a swap of exactly MIN_SWAP_AMOUNT succeeds
C16_WitnessAtFloor ==
    /\ Ok("swap")
    /\ last.amount_in = MIN_SWAP_AMOUNT

\* the direct call was calculate_swap_output with a fee that rounds to 0
\* and an output, floor(amount_in * reserve_out / (reserve_in + amount_in)),
\* that rounds to 0
SwapCallRoundsToZero ==
    /\ SwapCallComputes
    /\ call.fee_denominator > 0
    /\ FloorIsZero(call.amount_in, call.fee_numerator, call.fee_denominator)
    /\ FloorIsZero(call.amount_in, call.reserve_out, call.reserve_in + call.amount_in)

\* C17: when the computed amount_out is 0, calculate_swap_output fails with
\* AmountTooSmall.
C17_ZeroOutputIsAmountTooSmall ==
    SwapCallRoundsToZero => call.ret.err = "AmountTooSmall"

\* what the code returns then: InsufficientOutputAmount, and no output pair
C17_ZeroOutputIsInsufficientOutput ==
    SwapCallRoundsToZero
        => /\ call.ret.err = "InsufficientOutputAmount"
           /\ call.ret.amount_out = 0
           /\ call.ret.fee_amount = 0

\* calculate_swap_output(1, 1000, 1, 3, 1000): fee 0, output 0
C17_WitnessZeroOutput ==
    /\ SwapCallRoundsToZero
    /\ call.amount_in = 1
    /\ call.reserve_in = 1000
    /\ call.reserve_out = 1
    /\ call.fee_numerator = 3
    /\ call.fee_denominator = 1000
    /\ call.ret.err = "InsufficientOutputAmount"

Fee(p) == <<p.fee_numerator, p.fee_denominator>>

\* the last instruction, if an add_liquidity, remove_liquidity or swap, has
\* left the fee fields alone, in the stored Pool and in the handler's
FeeUntouched ==
    last.op \in {"add_liquidity", "remove_liquidity", "swap"}
        => (Fee(pool) = Fee(last.pre) /\ Fee(last.mem) = Fee(last.pre))

\* C18: no add_liquidity, remove_liquidity or swap changes fee_numerator or
\* fee_denominator, and in every state of a created pool
\* 1 <= floor(fee_numerator * 10000 / fee_denominator) <= 1000.
C18_FeeFixedAndInRange ==
    /\ FeeUntouched
    /\ created => FeeInRange(pool.fee_numerator, pool.fee_denominator)

\* the part that holds: the fee fields are written by initialize_pool only,
\* and a created pool whose fee_numerator * 10000 fits in a u64 has its fee
\* in range
C18_FeeFixedAndInRangeWhenProductFits ==
    /\ FeeUntouched
    /\ ~created => Fee(pool) = <<0, 0>>
    /\ (created /\ FeeProductFits(pool.fee_numerator))
          => FeeInRange(pool.fee_numerator, pool.fee_denominator)

\* the fee fields change in no step of a created pool
C18_FeeNeverRewritten ==
    [][created => Fee(pool') = Fee(pool)]_vars

\* a pool created, by a build without overflow checks, with a fee of more
\* than 100%, and given liquidity
C18_PoolWithFeeOutOfRange ==
    /\ created
    /\ pool.fee_numerator = FeeOverflowNum
    /\ pool.fee_denominator = 10
    /\ ~FeeInRange(pool.fee_numerator, pool.fee_denominator)
    /\ is_initialized(pool)

\* no statistics counter of q is below that of p
CountersNotBelow(p, q) ==
    /\ q.total_swaps >= p.total_swaps
    /\ q.cumulative_volume_a >= p.cumulative_volume_a
    /\ q.cumulative_volume_b >= p.cumulative_volume_b
    /\ q.cumulative_fees_a >= p.cumulative_fees_a
    /\ q.cumulative_fees_b >= p.cumulative_fees_b

\* s is x + y, or 2^64 - 1 when the sum is above it
IsSaturatedSum(s, x, y) == s = (IF x + y >= U64_MAX THEN U64_MAX ELSE x + y)

\* the counters of q are those of p with the amounts added with saturation
CountersAdded(p, q, volume_a, volume_b, fee_a, fee_b) ==
    /\ IsSaturatedSum(q.total_swaps, p.total_swaps, 1)
    /\ IsSaturatedSum(q.cumulative_volume_a, p.cumulative_volume_a, volume_a)
    /\ IsSaturatedSum(q.cumulative_volume_b, p.cumulative_volume_b, volume_b)
    /\ IsSaturatedSum(q.cumulative_fees_a, p.cumulative_fees_a, fee_a)
    /\ IsSaturatedSum(q.cumulative_fees_b, p.cumulative_fees_b, fee_b)

\* what C19 states of a step
CountersStep ==
    /\ CountersNotBelow(pool, pool')
    /\ (last'.op = "swap" /\ last'.err = "Ok" /\ last' # last)
          => IF last'.a_to_b
             THEN CountersAdded(pool, pool', last'.amount_in, last'.amount_out,
                                last'.fee_amount, 0)
             ELSE CountersAdded(pool, pool', last'.amount_out, last'.amount_in,
                                0, last'.fee_amount)
    /\ call'.fn = "record_swap"
          => /\ CountersNotBelow(call'.p, call'.ret)
             /\ CountersAdded(call'.p, call'.ret, call'.volume_a, call'.volume_b,
                              call'.fee_a, call'.fee_b)
    /\ call'.fn = "swap"
          => /\ call'.ret.err = "Ok"
             /\ CountersNotBelow(call'.p, call'.ret.pool)
             /\ IF call'.a_to_b
                THEN CountersAdded(call'.p, call'.ret.pool, call'.amount_in,
                                   call'.ret.amount_out, call'.ret.fee_amount, 0)
                ELSE CountersAdded(call'.p, call'.ret.pool, call'.ret.amount_out,
                                   call'.amount_in, 0, call'.ret.fee_amount)

\* C19: total_swaps, cumulative_volume_a/b and cumulative_fees_a/b decrease
\* in no step; a successful swap and record_swap add to them with saturation
\* at 2^64 - 1; and a swap on a Pool whose counters are saturated succeeds.
C19_CountersSaturate ==
    [][CountersStep]_vars

\* record_swap on counters at 2^64 - 1 with amounts that would wrap: they
\* stay at 2^64 - 1
C19_Witness ==
    /\ call.fn = "record_swap"
    /\ call.p.total_swaps = U64_MAX
    /\ call.volume_a = U64_MAX
    /\ call.fee_b = HalfMod
    /\ call.ret.total_swaps = U64_MAX
    /\ call.ret.cumulative_volume_a = U64_MAX
    /\ call.ret.cumulative_fees_b = U64_MAX

\* a swap that succeeds on a Pool whose counters are all saturated
C19_WitnessSwapOnSaturated ==
    /\ call.fn = "swap"
    /\ call.p.total_swaps = U64_MAX
    /\ call.p.cumulative_volume_b = U64_MAX
    /\ call.ret.err = "Ok"
    /\ call.ret.pool.total_swaps = U64_MAX
    /\ call.ret.pool.reserve_a # call.p.reserve_a

\* a swap of the instruction sequence that has raised the counters
C19_WitnessSwapCounts ==
    /\ Ok("swap")
    /\ pool.total_swaps = 2
    /\ pool.cumulative_fees_a > 0
    /\ pool.cumulative_fees_b > 0

\* C20: whenever calculate_swap_output succeeds and reserve_in + amount_in
\* does not overflow, verify_invariant on the old reserves and
\* (reserve_in + amount_in, reserve_out - amount_out) succeeds; no swap
\* instruction returns InvariantViolation; and verify_invariant succeeds
\* exactly when the new product is at least the old one.
C20_GateNeverFires ==
    /\ call.fn = "swap_then_verify"
          => /\ (call.ret.err = "Ok" /\ call.reserve_in + call.amount_in <= U64_MAX)
                  => call.gate = "Ok"
             /\ call.gate \in {"Ok", "none"}
    /\ call.fn = "swap" => call.ret.err # "InvariantViolation"
    /\ last.op = "swap" => last.err # "InvariantViolation"
    /\ call.fn = "verify_invariant"
          => (call.ret = "Ok"
                <=> u128_le(u128_mul(call.old_reserve_a, call.old_reserve_b),
                            u128_mul(call.new_reserve_a, call.new_reserve_b)))

\* a computation that reaches the gate and passes it with products
\* above 2^64
C20_Witness ==
    /\ call.fn = "swap_then_verify"
    /\ call.reserve_in = 1000
    /\ call.amount_in = HalfMod
    /\ call.reserve_out = U64_MAX
    /\ u128_mul(call.reserve_in, call.reserve_out).hi > 0
    /\ call.ret.err = "Ok"
    /\ call.gate = "Ok"

\* the gate does fire when the product falls
C20_WitnessGateFires ==
    /\ call.fn = "verify_invariant"
    /\ call.old_reserve_a = 1000
    /\ call.old_reserve_b = 1000
    /\ call.new_reserve_a = 1000
    /\ call.new_reserve_b = 3
    /\ call.ret = "InvariantViolation"

\* the reserve the swap pays into
ReserveIn(p, a_to_b) == IF a_to_b THEN p.reserve_a ELSE p.reserve_b

\* C21: a successful swap raises the input-side reserve by the whole
\* amount_in, fee included, and lowers the output-side reserve by amount_out;
\* a successful add_liquidity raises the reserves by (amount_a, amount_b); a
\* successful remove_liquidity lowers them by the amounts it returned; and in
\* every state each reserve equals the net amount the instructions have
\* transferred into its vault.
C21_ReserveDeltas ==
    /\ Ok("swap")
          => /\ ReserveIn(pool, last.a_to_b) = ReserveIn(last.pre, last.a_to_b) + last.amount_in
             /\ ReserveOut(pool, last.a_to_b) = ReserveOut(last.pre, last.a_to_b) - last.amount_out
    /\ Ok("add_liquidity")
          => /\ pool.reserve_a = last.pre.reserve_a + last.amount_a
             /\ pool.reserve_b = last.pre.reserve_b + last.amount_b
    /\ Ok("remove_liquidity")
          => /\ pool.reserve_a = last.pre.reserve_a - last.amount_a
             /\ pool.reserve_b = last.pre.reserve_b - last.amount_b
    /\ pool.reserve_a = vault_a
    /\ pool.reserve_b = vault_b

\* a successful swap that charged a fee: the input reserve has grown by the
\* whole amount_in and the vaults hold the reserves
C21_Witness ==
    /\ Ok("swap")
    /\ last.fee_amount > 0
    /\ last.amount_out > 0
    /\ ReserveIn(pool, last.a_to_b) = ReserveIn(last.pre, last.a_to_b) + last.amount_in
    /\ vault_a = pool.reserve_a
    /\ vault_b = pool.reserve_b

\* a successful deposit off the pool's ratio: both amounts are in the
\* reserves in full
C21_WitnessUnbalancedAdd ==
    /\ Ok("add_liquidity")
    /\ is_initialized(last.pre)
    /\ u128_lt(u128_mul(last.amount_a, last.pre.reserve_b),
               u128_mul(last.amount_b, last.pre.reserve_a))
    /\ pool.reserve_b = last.pre.reserve_b + last.amount_b

\* a successful withdrawal after a swap
C21_WitnessRemove ==
    /\ Ok("remove_liquidity")
    /\ prev.op = "swap"
    /\ prev.err = "Ok"
    /\ last.amount_a > 0
    /\ vault_a = last.pre.reserve_a - last.amount_a

\* what calculate_swap_output returns for the last swap instruction
LastSwapOutput ==
    calculate_swap_output(last.amount_in, ReserveIn(last.pre, last.a_to_b),
                          ReserveOut(last.pre, last.a_to_b),
                          last.pre.fee_numerator, last.pre.fee_denominator)

\* the last swap instruction has computed an amount_out
LastSwapComputed ==
    /\ last.op = "swap"
    /\ ~last.pre.paused
    /\ last.amount_in >= MIN_SWAP_AMOUNT
    /\ is_initialized(last.pre)
    /\ LastSwapOutput.err = "Ok"

\* the shares the last add_liquidity instruction computes for the depositor:
\* the root less the lock on a first deposit, the proportional amount later
LastAddShares ==
    IF is_initialized(last.pre)
    THEN calculate_liquidity_to_mint(last.amount_a, last.amount_b, last.pre.reserve_a,
                                     last.pre.reserve_b, last.pre_supply)
    ELSE LET full == calculate_initial_liquidity(last.amount_a, last.amount_b)
         IN  IF full.err = "Ok"
             THEN [err |-> "Ok", liquidity |-> full.liquidity - MINIMUM_LIQUIDITY]
             ELSE full

\* the last add_liquidity instruction has computed the depositor's shares
LastAddComputed ==
    /\ last.op = "add_liquidity"
    /\ ~last.pre.paused
    /\ last.amount_a > 0
    /\ last.amount_b > 0
    /\ is_initialized(last.pre)
          \/ (last.amount_a >= MIN_INITIAL_LIQUIDITY /\ last.amount_b >= MIN_INITIAL_LIQUIDITY)
    /\ LastAddShares.err = "Ok"

\* what calculate_amounts_for_liquidity returns for the last remove_liquidity
LastRemoveAmounts ==
    calculate_amounts_for_liquidity(last.liquidity, last.pre.reserve_a, last.pre.reserve_b,
                                    last.pre_supply)

\* the last remove_liquidity instruction has computed the two amounts
LastRemoveComputed ==
    /\ last.op = "remove_liquidity"
    /\ last.liquidity > 0
    /\ is_initialized(last.pre)
    /\ LastRemoveAmounts.err = "Ok"

\* the last instruction has changed nothing: Pool, LP supply and vaults
NothingMoved ==
    /\ pool = last.pre
    /\ last.mem = last.pre
    /\ lp_supply = last.pre_supply
    /\ vault_a = last.pre.reserve_a
    /\ vault_b = last.pre.reserve_b

\* C22: a swap whose amount_out is below min_amount_out, an add_liquidity
\* whose shares for the depositor are below min_liquidity and a
\* remove_liquidity with amount_a below min_amount_a or amount_b below
\* min_amount_b fail with SlippageExceeded; an instruction that fails so has
\* changed neither the reserves nor the LP supply nor the vaults; and a
\* successful instruction delivers at least the caller's minimum.
C22_MinimumsEnforced ==
    /\ (LastSwapComputed /\ LastSwapOutput.amount_out < last.min1)
          => last.err = "SlippageExceeded"
    /\ (LastAddComputed /\ LastAddShares.liquidity < last.min1)
          => last.err = "SlippageExceeded"
    /\ (LastRemoveComputed /\ (\/ LastRemoveAmounts.amount_a < last.min1
                               \/ LastRemoveAmounts.amount_b < last.min2))
          => last.err = "SlippageExceeded"
    /\ last.err = "SlippageExceeded" => NothingMoved
    /\ Ok("swap") => last.amount_out >= last.min1
    /\ Ok("add_liquidity") => last.liquidity >= last.min1
    /\ Ok("remove_liquidity") => (last.amount_a >= last.min1 /\ last.amount_b >= last.min2)

\* a swap on a pool with reserves whose output is positive and below the
\* caller's minimum: it fails and nothing has moved
C22_Witness ==
    /\ LastSwapComputed
    /\ LastSwapOutput.amount_out > 0
    /\ LastSwapOutput.amount_out < last.min1
    /\ last.err = "SlippageExceeded"
    /\ pool.reserve_a > 0
    /\ NothingMoved

\* a deposit refused for its minimum, on a first deposit
C22_WitnessAdd ==
    /\ LastAddComputed
    /\ ~is_initialized(last.pre)
    /\ LastAddShares.liquidity < last.min1
    /\ last.err = "SlippageExceeded"

\* a withdrawal refused for min_amount_b with min_amount_a met
C22_WitnessRemove ==
    /\ LastRemoveComputed
    /\ LastRemoveAmounts.amount_a >= last.min1
    /\ LastRemoveAmounts.amount_b < last.min2
    /\ last.err = "SlippageExceeded"

\* instructions that succeed with a positive minimum
C22_WitnessMet ==
    \/ Ok("swap") /\ last.min1 > 0
    \/ Ok("remove_liquidity") /\ last.min2 > 0

\* the fields add_liquidity and remove_liquidity may write
LiquidityFrame == {"reserve_a", "reserve_b", "last_update_slot"}

\* the fields swap may write
SwapFrame ==
    {"reserve_a", "reserve_b", "total_swaps", "cumulative_volume_a", "cumulative_volume_b",
     "cumulative_fees_a", "cumulative_fees_b", "last_swap_timestamp", "last_update_slot"}

\* q is p in every field outside frame
SameOutside(frame, p, q) == \A f \in (DOMAIN p) \ frame : q[f] = p[f]

\* the fee counter of the side the swap pays out of is the same in p and q
OtherFeeCounterKept(p, q, a_to_b) ==
    IF a_to_b THEN q.cumulative_fees_b = p.cumulative_fees_b
              ELSE q.cumulative_fees_a = p.cumulative_fees_a

\* the fee counter of the side the swap pays into has the fee added
InputFeeCounterCredited(p, q, a_to_b, fee_amount) ==
    IF a_to_b THEN IsSaturatedSum(q.cumulative_fees_a, p.cumulative_fees_a, fee_amount)
              ELSE IsSaturatedSum(q.cumulative_fees_b, p.cumulative_fees_b, fee_amount)

\* C23: add_liquidity and remove_liquidity change no field of the Pool other
\* than reserve_a, reserve_b and last_update_slot; swap changes no field
\* other than the reserves, the five statistics counters, last_swap_timestamp
\* and last_update_slot, adds the fee to the fee counter of the input side
\* and leaves the fee counter of the other side as it was.  This holds of the
\* Pool the handler returns with, whether it succeeds or fails, and of the
\* stored one.
C23_Frame ==
    /\ last.op \in {"add_liquidity", "remove_liquidity"}
          => /\ SameOutside(LiquidityFrame, last.pre, last.mem)
             /\ SameOutside(LiquidityFrame, last.pre, pool)
    /\ last.op = "swap"
          => /\ SameOutside(SwapFrame, last.pre, last.mem)
             /\ SameOutside(SwapFrame, last.pre, pool)
             /\ OtherFeeCounterKept(last.pre, pool, last.a_to_b)
             /\ last.err = "Ok"
                   => InputFeeCounterCredited(last.pre, pool, last.a_to_b, last.fee_amount)
    /\ call.fn = "swap"
          => /\ SameOutside(SwapFrame, call.p, call.ret.pool)
             /\ OtherFeeCounterKept(call.p, call.ret.pool, call.a_to_b)
             /\ call.ret.err = "Ok"
                   => InputFeeCounterCredited(call.p, call.ret.pool, call.a_to_b,
                                              call.ret.fee_amount)

\* a successful swap of B for A after one of A for B: the fee counter of A,
\* positive, is as it was and that of B has grown
C23_Witness ==
    /\ Ok("swap")
    /\ ~last.a_to_b
    /\ last.fee_amount > 0
    /\ last.pre.cumulative_fees_a > 0
    /\ pool.cumulative_fees_a = last.pre.cumulative_fees_a
    /\ pool.cumulative_fees_b = last.pre.cumulative_fees_b + last.fee_amount
    /\ pool.created_at = last.pre.created_at

\* a successful deposit and a successful withdrawal on a pool that has
\* swapped: the counters and last_swap_timestamp are as the swap left them
C23_WitnessLiquidity ==
    /\ Ok("add_liquidity") \/ Ok("remove_liquidity")
    /\ last.pre.total_swaps > 0
    /\ last.pre.last_swap_timestamp > 0
    /\ pool.reserve_a # last.pre.reserve_a
    /\ pool.last_update_slot # last.pre.last_update_slot
    /\ pool.total_swaps = last.pre.total_swaps
    /\ pool.last_swap_timestamp = last.pre.last_swap_timestamp

\* a swap on a Pool whose counters are not zero
C23_WitnessCall ==
    /\ call.fn = "swap"
    /\ call.a_to_b
    /\ call.p.cumulative_fees_b = HalfMod
    /\ call.ret.err = "Ok"
    /\ call.ret.pool.cumulative_fees_b = HalfMod
    /\ call.ret.pool.cumulative_fees_a > HalfMod

\* total_lp_supply^2
SupplySquared == u128_mul(lp_supply, lp_supply)

\* C24: in every state of an initialized pool reserve_a * reserve_b is at
\* least the square of the LP supply.
C24_ProductCoversSupplySquared ==
    is_initialized(pool) => u128_le(SupplySquared, K(pool))

\* a pool that has taken a deposit, a swap and a withdrawal, in any order,
\* its product strictly above the square of the supply
C24_Witness ==
    /\ ops = MaxOps
    /\ Ok("remove_liquidity")
    /\ prev.op = "swap"
    /\ prev.err = "Ok"
    /\ is_initialized(pool)
    /\ u128_lt(SupplySquared, K(pool))

\* the first deposit of a square product: the product equals the square of
\* the supply
C24_WitnessEqual ==
    /\ Ok("add_liquidity")
    /\ ~is_initialized(last.pre)
    /\ K(pool) = SupplySquared

\* a later deposit off the pool's ratio
C24_WitnessLaterDeposit ==
    /\ Ok("add_liquidity")
    /\ is_initialized(last.pre)
    /\ last.liquidity > 0
    /\ u128_lt(SupplySquared, K(pool))

\* what C25 states of a step: an initialized pool stays initialized, and the
\* lock of the first deposit is not minted a second time
StaysInitialized ==
    /\ is_initialized(pool) => is_initialized(pool')
    /\ locked_lp' <= MINIMUM_LIQUIDITY
    /\ (last'.op = "add_liquidity" /\ last'.err = "Ok" /\ last' # last /\ is_initialized(pool))
          => locked_lp' = locked_lp

\* C25: once both reserves are positive they are positive in every later
\* state, whatever swaps and withdrawals follow, so that a first deposit
\* succeeds at most once on a pool.
C25_InitializedForGood ==
    [][StaysInitialized]_vars

\* the provider has swapped and then withdrawn every LP token they hold: the
\* pool is still initialized, on the locked supply alone
C25_Witness ==
    /\ Ok("remove_liquidity")
    /\ prev.op = "swap"
    /\ prev.err = "Ok"
    /\ last.liquidity = last.pre_supply - MINIMUM_LIQUIDITY
    /\ user_lp = 0
    /\ lp_supply = locked_lp
    /\ is_initialized(pool)

\* a deposit that follows the provider's complete withdrawal takes the
\* proportional path
C25_WitnessSecondDeposit ==
    /\ Ok("add_liquidity")
    /\ prev.op = "remove_liquidity"
    /\ prev.err = "Ok"
    /\ last.pre_supply = MINIMUM_LIQUIDITY
    /\ is_initialized(last.pre)
    /\ locked_lp = MINIMUM_LIQUIDITY

\* the last two instructions are a successful swap and a successful swap of
\* what it paid out, the other way
SwapRoundTrip ==
    /\ prev.op = "swap"
    /\ prev.err = "Ok"
    /\ Ok("swap")
    /\ last.a_to_b # prev.a_to_b
    /\ last.amount_in = prev.amount_out

\* the direct call was two successful swaps in a row
SwapRoundTripCall ==
    /\ call.fn = "swap_round_trip"
    /\ call.first.err = "Ok"
    /\ call.second.err = "Ok"

\* C26: when a successful swap of x one way, paying y, is followed at once by
\* a successful swap of y the other way, the second pays at most x.
C26_SwapRoundTripNotProfitable ==
    /\ SwapRoundTrip => last.amount_out <= prev.amount_in
    /\ SwapRoundTripCall => call.second.amount_out <= call.amount_in

\* a round trip of instructions that returns strictly less than it put in
C26_Witness ==
    /\ SwapRoundTrip
    /\ prev.a_to_b
    /\ last.amount_out > 0
    /\ last.amount_out < prev.amount_in

\* a round trip starting with B on reserves at the top of the word
C26_WitnessCall ==
    /\ SwapRoundTripCall
    /\ ~call.a_to_b
    /\ call.p.reserve_a = NearMax
    /\ call.p.reserve_b = HalfMod
    /\ call.second.amount_out > 0
    /\ call.second.amount_out <= call.amount_in

\* a round trip at the lowest fee that returns within one unit of the input
C26_WitnessNearLossless ==
    /\ SwapRoundTripCall
    /\ call.p.fee_numerator = 1
    /\ call.p.fee_denominator = 10000
    /\ call.second.amount_out >= call.amount_in - 1

\* the swap handler's first call of the pair succeeded
FirstSwapOk == call.fn = "swap_round_trip" /\ call.first.err = "Ok"

\* the fee of a swap of amount_in on Pool p: the floor of
\* amount_in * fee_numerator / fee_denominator, positive exactly when
\* amount_in * fee_numerator reaches fee_denominator, which it does from
\* amount_in = 10000 on at every fee of 1 bps and more
FeeIsFloor(p, amount_in, fee_amount) ==
    /\ IsFloor(fee_amount, amount_in, p.fee_numerator, p.fee_denominator)
    /\ fee_amount > 0
          <=> u128_le(U128(p.fee_denominator), u128_mul(amount_in, p.fee_numerator))
    /\ amount_in >= BPS_DENOMINATOR => fee_amount > 0

\* C27, as stated: every successful swap on a pool whose fee is within
\* [1, 1000] bps charges fee_amount > 0.
C27_FeeAlwaysPositive ==
    /\ (Ok("swap") /\ FeeInRange(last.pre.fee_numerator, last.pre.fee_denominator))
          => last.fee_amount > 0
    /\ (FirstSwapOk /\ FeeInRange(call.p.fee_numerator, call.p.fee_denominator))
          => call.first.fee_amount > 0

\* C27, amended: every successful swap on a pool whose fee is within
\* [1, 1000] bps charges floor(amount_in * fee_numerator / fee_denominator),
\* which is positive exactly when amount_in * fee_numerator >=
\* fee_denominator, so for every amount_in >= 10000; the fee counter of the
\* input side has the fee added, with saturation, and does not decrease.
C27_FeeIsFloorOfRate ==
    /\ (Ok("swap") /\ FeeInRange(last.pre.fee_numerator, last.pre.fee_denominator))
          => /\ last.amount_in >= MIN_SWAP_AMOUNT
             /\ FeeIsFloor(last.pre, last.amount_in, last.fee_amount)
             /\ InputFeeCounterCredited(last.pre, pool, last.a_to_b, last.fee_amount)
    /\ (FirstSwapOk /\ FeeInRange(call.p.fee_numerator, call.p.fee_denominator))
          => /\ call.amount_in >= MIN_SWAP_AMOUNT
             /\ FeeIsFloor(call.p, call.amount_in, call.first.fee_amount)
             /\ InputFeeCounterCredited(call.p, call.first.pool, call.a_to_b,
                                        call.first.fee_amount)

\* a successful swap that charged a fee: the fee counter of its input side
\* has grown
C27_Witness ==
    /\ Ok("swap")
    /\ FeeInRange(last.pre.fee_numerator, last.pre.fee_denominator)
    /\ last.fee_amount > 0
    /\ last.a_to_b
    /\ pool.cumulative_fees_a = last.pre.cumulative_fees_a + last.fee_amount

\* a successful swap of MIN_SWAP_AMOUNT at 30 bps: the fee is 0 and the fee
\* counters are as they were
C27_WitnessFeeFree ==
    /\ Ok("swap")
    /\ last.amount_in = MIN_SWAP_AMOUNT
    /\ last.pre.fee_numerator = 3
    /\ last.pre.fee_denominator = 1000
    /\ last.amount_out > 0
    /\ last.fee_amount = 0
    /\ pool.cumulative_fees_a = last.pre.cumulative_fees_a
    /\ pool.cumulative_fees_b = last.pre.cumulative_fees_b

\* the largest fee-free swap at 30 bps, on large reserves
C27_WitnessFeeFreeCall ==
    /\ FirstSwapOk
    /\ call.amount_in = 333
    /\ call.p.fee_numerator = 3
    /\ call.p.fee_denominator = 1000
    /\ call.first.fee_amount = 0
    /\ call.first.amount_out > 0

\* C28: every successful add_liquidity credits the depositor with a positive
\* number of LP tokens, on the first deposit (after the lock is taken off) as
\* on later ones.
C28_PositiveShares ==
    Ok("add_liquidity") => last.liquidity > 0

\* a successful first deposit that takes 1000 of each token and credits the
\* depositor with nothing: the whole supply is the lock
C28_DepositForNoShares ==
    /\ Ok("add_liquidity")
    /\ ~is_initialized(last.pre)
    /\ last.amount_a = 1000
    /\ last.amount_b = 1000
    /\ pool.reserve_a = 1000
    /\ pool.reserve_b = 1000
    /\ last.liquidity = 0
    /\ user_lp = 0
    /\ lp_supply = MINIMUM_LIQUIDITY

\* the part that holds: a successful deposit on an initialized pool credits
\* a positive number of LP tokens
C28_LaterDepositsPositive ==
    (Ok("add_liquidity") /\ is_initialized(last.pre)) => last.liquidity > 0

\* C29: on a Pool whose paused flag is set, swap and add_liquidity return
\* PoolPaused and leave the Pool as it was; remove_liquidity returns what it
\* returns on the same Pool not paused, never PoolPaused, and succeeds for
\* every amount from 2 LP tokens up to the provider's whole balance; and no
\* instruction changes the flag: it is false in every state the instructions
\* reach and every handler returns the Pool with the flag it was given.
C29_PauseGate ==
    /\ call.fn \in {"swap_paused", "add_liquidity_paused"}
          => /\ call.ret.err = "PoolPaused"
             /\ call.ret.pool = call.p
    /\ call.fn = "remove_liquidity_paused"
          => /\ call.ret.err # "PoolPaused"
             /\ call.ret.err = call.unpaused.err
             /\ call.ret.amount_a = call.unpaused.amount_a
             /\ call.ret.amount_b = call.unpaused.amount_b
             /\ call.ret.pool = [call.unpaused.pool EXCEPT !.paused = TRUE]
             /\ (call.liquidity_amount >= 2 /\ call.liquidity_amount <= PausedBalance
                    /\ call.ret.err # "SlippageExceeded")
                   => call.ret.err = "Ok"
    /\ pool.paused = FALSE
    /\ last.mem.paused = last.pre.paused

\* a swap that would succeed on the Pool is refused because it is paused
C29_Witness ==
    /\ call.fn = "swap_paused"
    /\ call.p.paused
    /\ call.amount_in = 1500
    /\ call.ret.err = "PoolPaused"
    /\ call.ret.pool = call.p

\* a deposit refused on the paused Pool
C29_WitnessAdd ==
    /\ call.fn = "add_liquidity_paused"
    /\ call.p.paused
    /\ call.amount_a = 10000
    /\ call.amount_b = 40000
    /\ call.ret.err = "PoolPaused"

\* the provider withdraws their whole balance from the paused Pool
C29_WitnessExit ==
    /\ call.fn = "remove_liquidity_paused"
    /\ call.p.paused
    /\ call.liquidity_amount = PausedBalance
    /\ call.ret.err = "Ok"
    /\ call.ret.amount_a > 0
    /\ call.ret.amount_b > 0
    /\ call.ret.pool.paused
    /\ call.ret.pool.reserve_a = call.p.reserve_a - call.ret.amount_a

\* instructions have run on the pool and the flag is still false
C29_WitnessFlagKept ==
    /\ ops = MaxOps
    /\ Ok("swap")
    /\ ~pool.paused

====
